---------------------------- MODULE Spec2Model ----------------------------
(***************************************************************************)
(* A model of the transcript normalization pipeline of The-Office-Simulator *)
(*                                                                         *)
(*   src/TranscriptToRagProcessor.py              normalize_character_name, *)
(*                                                parse_episode_filename,   *)
(*                                                parse_transcript,         *)
(*                                                process_all_transcripts,  *)
(*                                                get_statistics            *)
(*   src/DataProcessing/ConvertTranscriptFormat.py   _convert_lines         *)
(*   src/DataProcessing/TranscriptScraper.py      _parse_episode_title,     *)
(*                                                _sanitize_filename,       *)
(*                                                _organize_by_season,      *)
(*                                                get_episode_links,        *)
(*                                                _clean_transcript,        *)
(*                                                resume_scraping           *)
(*   src/DataProcessing/SingleEpisodeScraper.py   _parse_episode_from_match *)
(*   src/DataProcessing/AlternativeScraper.py     parse_simple_transcript   *)
(*                                                                         *)
(* A Python str is modelled as a sequence of one-character strings, so     *)
(* that strip(), split(), title() and the regular expressions are computed *)
(* character by character, the way the interpreter computes them.          *)
(***************************************************************************)
EXTENDS Integers, Sequences, FiniteSets, TLC

VARIABLES
    \* TranscriptToRAGProcessor.parse_transcript
    lines,                  \* content.split('\n')
    keep_stage_directions,  \* self.keep_stage_directions
    episode_info,           \* the episode_info argument
    i,                      \* index of the line under the cursor (0-based)
    current_scene,
    line_number,
    dialogues,              \* the list being returned
    opened,                 \* history: for each dialogue, the index of its character line
    discarded,              \* history: the indexes of the character lines that gave no dialogue
    \* TranscriptFormatConverter._convert_lines
    raw_lines,              \* the lines argument, each without its newline
    ci,                     \* the converter's i
    converted,
    \* TranscriptToRAGProcessor.normalize_character_name
    name,                   \* the name argument
    normalized,             \* normalize_character_name(name)
    renormalized,           \* normalize_character_name(normalized)
    \* _parse_episode_title and _parse_episode_from_match
    title,                  \* the page or topic title
    written,                \* the numbers the title was written from
    episode,                \* the dict returned
    \* TranscriptToRAGProcessor.process_all_transcripts
    txt_files,              \* sorted(Path(self.input_dir).glob('*.txt')), with what each file holds
    episode_titles,         \* the episode_titles argument
    fi,                     \* the number of files the for loop has taken
    all_dialogues,
    dialogues_by_season,    \* self.dialogues_by_season
    total_files,            \* self.total_files
    total_dialogues,        \* self.total_dialogues
    \* parse_transcript, called for several units whose steps interleave
    units,                  \* for each call, its arguments and its locals
    calls,                  \* the calls of process_all_transcripts that returned
    \* OfficeTranscriptScraper
    topics,                 \* the titles of the topic links of the forum pages
    episodes_by_season,     \* self.episodes_by_season
    total_episodes,         \* self.total_episodes
    saved,                  \* the names of the files that exist in output_dir
    resumed,                \* how resume_scraping ended
    transcript,             \* the text scrape_transcript passes to _clean_transcript
    \* AlternativeTranscriptScraper.parse_simple_transcript
    simple,                 \* its text argument and its locals
    pc

parseVars == << lines, keep_stage_directions, episode_info, i, current_scene,
                line_number, dialogues, opened, discarded >>

convertVars == << raw_lines, ci, converted >>

normalizeVars == << name, normalized, renormalized >>

titleVars == << title, written, episode >>

processVars == << txt_files, episode_titles, fi, all_dialogues,
                  dialogues_by_season, total_files, total_dialogues >>

unitVars == << units >>

callVars == << calls >>

scraperVars == << topics, episodes_by_season, total_episodes, saved, resumed, transcript >>

simpleVars == << simple >>

otherVars == << callVars, scraperVars, simpleVars >>

batchVars == << processVars, unitVars, otherVars >>

vars == << parseVars, convertVars, normalizeVars, titleVars, batchVars, pc >>

---------------------------------------------------------------------------
(* Bounds of the model                                                     *)

\* lines of a transcript file
MaxLines == 3

\* characters of a generated character name
MaxNameLen == 3

\* lines of a transcript file in the old, split layout
MaxRawLines == 4

\* season and episode numbers a title is written from
MaxSeason == 10

MaxEpisode == 10

---------------------------------------------------------------------------
(* Characters and the str methods the code calls                           *)

UpperLetters ==
    <<"A", "B", "C", "D", "E", "F", "G", "H", "I", "J", "K", "L", "M", "N", "O", "P", "Q", "R", "S", "T", "U", "V", "W", "X", "Y", "Z">>

LowerLetters ==
    <<"a", "b", "c", "d", "e", "f", "g", "h", "i", "j", "k", "l", "m", "n", "o", "p", "q", "r", "s", "t", "u", "v", "w", "x", "y", "z">>

Range(s) == { s[k] : k \in DOMAIN s }

Min(S) == CHOOSE x \in S : \A y \in S : x <= y

Max(S) == CHOOSE x \in S : \A y \in S : x >= y

IsUpperChar(c) == c \in Range(UpperLetters)

IsLowerChar(c) == c \in Range(LowerLetters)

IsCased(c) == IsUpperChar(c) \/ IsLowerChar(c)

LetterIndex(c) ==
    CHOOSE k \in 1..26 : UpperLetters[k] = c \/ LowerLetters[k] = c

ToUpper(c) == IF IsLowerChar(c) THEN UpperLetters[LetterIndex(c)] ELSE c

ToLower(c) == IF IsUpperChar(c) THEN LowerLetters[LetterIndex(c)] ELSE c

\* the characters str.strip(), str.split() and the pattern \s take for blank
Whitespace == { " ", "\t" }

IsSpace(c) == c \in Whitespace

\* s.strip(chars)
StripChars(s, chars) ==
    LET keep == { k \in DOMAIN s : s[k] \notin chars }
    IN  IF keep = {} THEN << >> ELSE SubSeq(s, Min(keep), Max(keep))

\* s.strip()
Strip(s) == StripChars(s, Whitespace)

\* s.startswith(c), for a one-character prefix
StartsWith(s, c) == Len(s) >= 1 /\ s[1] = c

\* s.isupper(): some cased character, and no lower-case one
IsUpper(s) ==
    /\ \E k \in DOMAIN s : IsCased(s[k])
    /\ \A k \in DOMAIN s : ~IsLowerChar(s[k])

\* s.title(): a cased character is upper-cased when the character before it is
\* not cased, and lower-cased when it is
Title(s) ==
    [ k \in DOMAIN s |->
        IF k > 1 /\ IsCased(s[k - 1]) THEN ToLower(s[k]) ELSE ToUpper(s[k]) ]

RECURSIVE SplitFrom(_, _, _, _)
SplitFrom(s, k, word, words) ==
    IF k > Len(s)
    THEN IF word = << >> THEN words ELSE Append(words, word)
    ELSE IF IsSpace(s[k])
         THEN SplitFrom(s, k + 1, << >>,
                        IF word = << >> THEN words ELSE Append(words, word))
         ELSE SplitFrom(s, k + 1, Append(word, s[k]), words)

\* s.split(): the maximal runs of non-blank characters
Split(s) == SplitFrom(s, 1, << >>, << >>)

RECURSIVE Join(_, _)
\* sep.join(parts)
Join(parts, sep) ==
    IF parts = << >> THEN << >>
    ELSE IF Len(parts) = 1 THEN parts[1]
    ELSE parts[1] \o sep \o Join(Tail(parts), sep)

---------------------------------------------------------------------------
(* TranscriptToRAGProcessor.normalize_character_name                       *)

\* self.character_mappings, as (key, value) pairs in source order
character_mappings ==
  <<
     << <<"M", "i", "c", "h", "e", "a", "l">>,
        <<"M", "i", "c", "h", "a", "e", "l">> >>,
     << <<"D", "i", "w", "g", "h", "t">>,
        <<"D", "w", "i", "g", "h", "t">> >>,
     << <<"M", "i", "c", "h", "e", "l">>,
        <<"M", "i", "c", "h", "a", "e", "l">> >>,
     << <<"D", "w", "i", "g", "h">>,
        <<"D", "w", "i", "g", "h", "t">> >>,
     << <<"P", "a", "m", " ", "B", "e", "e", "s", "l", "y">>,
        <<"P", "a", "m">> >>,
     << <<"P", "a", "m", " ", "H", "a", "l", "p", "e", "r", "t">>,
        <<"P", "a", "m">> >>,
     << <<"J", "i", "m", " ", "H", "a", "l", "p", "e", "r", "t">>,
        <<"J", "i", "m">> >>,
     << <<"D", "w", "i", "g", "h", "t", " ", "S", "c", "h", "r", "u", "t", "e">>,
        <<"D", "w", "i", "g", "h", "t">> >>,
     << <<"D", "w", "i", "g", "h", "t", " ", "K", ".", " ", "S", "c", "h", "r", "u", "t", "e">>,
        <<"D", "w", "i", "g", "h", "t">> >>,
     << <<"M", "i", "c", "h", "a", "e", "l", " ", "S", "c", "o", "t", "t">>,
        <<"M", "i", "c", "h", "a", "e", "l">> >>,
     << <<"M", "i", "c", "h", "a", "e", "l", " ", "G", "a", "r", "y", " ", "S", "c", "o", "t", "t">>,
        <<"M", "i", "c", "h", "a", "e", "l">> >>,
     << <<"A", "n", "g", "e", "l", "a", " ", "M", "a", "r", "t", "i", "n">>,
        <<"A", "n", "g", "e", "l", "a">> >>,
     << <<"O", "s", "c", "a", "r", " ", "M", "a", "r", "t", "i", "n", "e", "z">>,
        <<"O", "s", "c", "a", "r">> >>,
     << <<"K", "e", "v", "i", "n", " ", "M", "a", "l", "o", "n", "e">>,
        <<"K", "e", "v", "i", "n">> >>,
     << <<"S", "t", "a", "n", "l", "e", "y", " ", "H", "u", "d", "s", "o", "n">>,
        <<"S", "t", "a", "n", "l", "e", "y">> >>,
     << <<"P", "h", "y", "l", "l", "i", "s", " ", "V", "a", "n", "c", "e">>,
        <<"P", "h", "y", "l", "l", "i", "s">> >>,
     << <<"R", "y", "a", "n", " ", "H", "o", "w", "a", "r", "d">>,
        <<"R", "y", "a", "n">> >>,
     << <<"K", "e", "l", "l", "y", " ", "K", "a", "p", "o", "o", "r">>,
        <<"K", "e", "l", "l", "y">> >>,
     << <<"T", "o", "b", "y", " ", "F", "l", "e", "n", "d", "e", "r", "s", "o", "n">>,
        <<"T", "o", "b", "y">> >>,
     << <<"C", "r", "e", "e", "d", " ", "B", "r", "a", "t", "t", "o", "n">>,
        <<"C", "r", "e", "e", "d">> >>,
     << <<"M", "e", "r", "e", "d", "i", "t", "h", " ", "P", "a", "l", "m", "e", "r">>,
        <<"M", "e", "r", "e", "d", "i", "t", "h">> >>,
     << <<"E", "r", "i", "n", " ", "H", "a", "n", "n", "o", "n">>,
        <<"E", "r", "i", "n">> >>,
     << <<"A", "n", "d", "y", " ", "B", "e", "r", "n", "a", "r", "d">>,
        <<"A", "n", "d", "y">> >>,
     << <<"D", "a", "r", "r", "y", "l", " ", "P", "h", "i", "l", "b", "i", "n">>,
        <<"D", "a", "r", "r", "y", "l">> >>,
     << <<"H", "o", "l", "l", "y", " ", "F", "l", "a", "x">>,
        <<"H", "o", "l", "l", "y">> >>,
     << <<"H", "o", "l", "l", "y">>,
        <<"H", "o", "l", "l", "y">> >>
  >>

MappingGet(key, default) ==
    IF \E k \in DOMAIN character_mappings : character_mappings[k][1] = key
    THEN character_mappings[
             CHOOSE k \in DOMAIN character_mappings :
                 character_mappings[k][1] = key ][2]
    ELSE default

\* a variant that looks the name up before title-casing it
normalize_character_name_MapsFirst(nm) ==
    LET collapsed == Join(Split(nm), << " " >>)
    IN  MappingGet(collapsed, Title(collapsed))

normalize_character_name(nm) ==
    LET collapsed == Join(Split(nm), << " " >>)
        titled    == Title(collapsed)
    IN  MappingGet(titled, titled)

---------------------------------------------------------------------------
(* Numbers in text: int(), str(), zfill() and the format 02d               *)

Digits ==
    <<"0", "1", "2", "3", "4", "5", "6", "7", "8", "9">>

IsDigit(c) == c \in Range(Digits)

DigitValue(c) == (CHOOSE k \in 1..10 : Digits[k] = c) - 1

RECURSIVE ParseInt(_)
\* int(s), s a non-empty string of digits
ParseInt(s) ==
    IF Len(s) = 1 THEN DigitValue(s[1])
    ELSE 10 * ParseInt(SubSeq(s, 1, Len(s) - 1)) + DigitValue(s[Len(s)])

RECURSIVE Decimal(_)
\* str(n), n >= 0
Decimal(n) ==
    IF n < 10 THEN << Digits[n + 1] >>
    ELSE Decimal(n \div 10) \o << Digits[(n % 10) + 1] >>

\* a variant that leaves the string as it is written
Zfill_NoPadding(s, w) == s

\* s.zfill(w), s a string of digits
Zfill(s, w) ==
    IF Len(s) >= w THEN s ELSE [ k \in 1..(w - Len(s)) |-> "0" ] \o s

\* f"{n:02d}", n >= 0
Format02d(n) == Zfill(Decimal(n), 2)

\* the end of the longest run of digits of s that starts at p (p - 1 when
\* s has no digit at p)
DigitRunEnd(s, p) ==
    Max({ q \in (p - 1)..Len(s) : \A k \in p..q : IsDigit(s[k]) })

---------------------------------------------------------------------------
(* OfficeTranscriptScraper._parse_episode_title, _sanitize_filename and    *)
(* SingleEpisodeDownloader._parse_episode_from_match                       *)

\* the match of (\d+)x(\d+(?:/\d+)?) at position p of s: the groups 1 and 2
\* and the position after the match, or matched = FALSE
EpisodeCodeAt(s, p, ignorecase) ==
    LET e1 == DigitRunEnd(s, p)
        e2 == DigitRunEnd(s, e1 + 2)
        e3 == IF e2 + 1 <= Len(s) /\ s[e2 + 1] = "/"
                 /\ DigitRunEnd(s, e2 + 2) >= e2 + 2
              THEN DigitRunEnd(s, e2 + 2) ELSE e2
    IN  IF /\ e1 >= p
           /\ e1 + 1 <= Len(s)
           /\ s[e1 + 1] \in (IF ignorecase THEN { "x", "X" } ELSE { "x" })
           /\ e2 >= e1 + 2
        THEN [ matched |-> TRUE,
               g1   |-> SubSeq(s, p, e1),
               g2   |-> SubSeq(s, e1 + 2, e3),
               rest |-> SubSeq(s, e3 + 1, Len(s)) ]
        ELSE [ matched |-> FALSE, g1 |-> << >>, g2 |-> << >>, rest |-> << >> ]

\* re.search: the match at the leftmost position that has one
EpisodeCodeSearch(s, ignorecase) ==
    LET at == { p \in DOMAIN s : EpisodeCodeAt(s, p, ignorecase).matched }
    IN  IF at = {} THEN EpisodeCodeAt(s, 1, ignorecase)
        ELSE EpisodeCodeAt(s, Min(at), ignorecase)

\* s without its leading blanks
LStrip(s) ==
    LET text == { k \in DOMAIN s : ~IsSpace(s[k]) }
    IN  IF text = {} THEN << >> ELSE SubSeq(s, Min(text), Len(s))

\* group 3 of ...\s*(.*): what follows the code and the blanks after it
RestOfTitle(rest) == LStrip(rest)

\* the character U+2022 of the page-title pattern, which a string of this
\* module cannot spell
Bullet == "U+2022"

\* group 3 of ...\s*(.*?)(?:\s*[-<bullet>]\s*|$): as RestOfTitle, but only up to
\* the first '-' or bullet and the blanks before it
NameBeforeDash(rest) ==
    LET r    == LStrip(rest)
        ends == { k \in 0..Len(r) :
                    \/ k = Len(r)
                    \/ LET tail == LStrip(SubSeq(r, k + 1, Len(r)))
                       IN  tail # << >> /\ tail[1] \in { "-", Bullet } }
    IN  SubSeq(r, 1, Min(ends))

\* episode_str.split('/')
SplitSlash(s) ==
    LET c == Min({ k \in DOMAIN s : s[k] = "/" })
    IN  << SubSeq(s, 1, c - 1), SubSeq(s, c + 1, Len(s)) >>

\* episode_num and episode_code as _parse_episode_title computes them
ScraperEpisodeNumber(season, episode_str) ==
    IF "/" \in Range(episode_str)
    THEN LET episodes == SplitSlash(episode_str)
         IN  [ episode_num  |-> ParseInt(episodes[1]),
               episode_code |-> Format02d(season) \o << "x" >>
                                  \o Zfill(episodes[1], 2) \o << "-" >>
                                  \o Zfill(episodes[2], 2) ]
    ELSE [ episode_num  |-> ParseInt(episode_str),
           episode_code |-> Format02d(season) \o << "x" >> \o Zfill(episode_str, 2) ]

\* episode_num and episode_code as _parse_episode_from_match computes them
SingleEpisodeNumber(season, episode_str) ==
    IF "/" \in Range(episode_str)
    THEN LET episodes == SplitSlash(episode_str)
         IN  [ episode_num  |-> ParseInt(episodes[1]),
               episode_code |-> Format02d(season) \o << "x" >>
                                  \o Zfill(episodes[1], 2) \o << "-" >>
                                  \o Zfill(episodes[2], 2) ]
    ELSE [ episode_num  |-> ParseInt(episode_str),
           episode_code |-> Format02d(season) \o << "x" >> \o Zfill(episode_str, 2) ]

\* the class \w of the sanitizing pattern
WordChars ==
    Range(UpperLetters) \cup Range(LowerLetters) \cup Range(Digits) \cup { "_" }

\* the longest length a title slug is left with
MaxSlugLen == 50

RECURSIVE SqueezeUnderscores(_)
\* re.sub(r'_+', '_', s)
SqueezeUnderscores(s) ==
    IF Len(s) < 2 THEN s
    ELSE IF s[1] = "_" /\ s[2] = "_" THEN SqueezeUnderscores(Tail(s))
    ELSE << s[1] >> \o SqueezeUnderscores(Tail(s))

\* s.rstrip('_')
RStripUnderscores(s) ==
    LET keep == { k \in DOMAIN s : s[k] # "_" }
    IN  IF keep = {} THEN << >> ELSE SubSeq(s, 1, Max(keep))

sanitize_filename(nm) ==
    LET Kept(c)  == c \in WordChars \cup Whitespace \cup { "-" }
        cleaned  == SelectSeq(nm, Kept)
        replaced == [ k \in DOMAIN cleaned |->
                        IF cleaned[k] = " " THEN "_" ELSE cleaned[k] ]
        stripped == StripChars(SqueezeUnderscores(replaced), { "_" })
    IN  IF Len(stripped) > MaxSlugLen
        THEN RStripUnderscores(SubSeq(stripped, 1, MaxSlugLen))
        ELSE stripped

\* the value None
None == << >>

parse_episode_title(t) ==
    LET m == EpisodeCodeSearch(t, TRUE)
    IN  IF m.matched
        THEN LET season == ParseInt(m.g1)
                 nm     == Strip(RestOfTitle(m.rest))
                 ep     == ScraperEpisodeNumber(season, m.g2)
             IN  [ season       |-> season,
                   episode_num  |-> ep.episode_num,
                   name         |-> nm,
                   full_title   |-> t,
                   episode_code |-> ep.episode_code,
                   filename     |-> ep.episode_code \o << "_" >>
                                      \o sanitize_filename(nm)
                                      \o <<".", "t", "x", "t">> ]
        ELSE None

parse_episode_from_match(m, g3) ==
    LET season == ParseInt(m.g1)
        ep     == SingleEpisodeNumber(season, m.g2)
    IN  [ season       |-> season,
          episode_num  |-> ep.episode_num,
          name         |-> Strip(g3),
          episode_code |-> ep.episode_code ]

\* extract_episode_info_from_url on a page whose <title> is t: the dict
\* built from the title, or None where the code goes on to the topic title
\* and the manual entry
episode_from_page_title(t) ==
    LET m == EpisodeCodeSearch(t, FALSE)
    IN  IF m.matched THEN parse_episode_from_match(m, NameBeforeDash(m.rest))
        ELSE None

---------------------------------------------------------------------------
(* TranscriptToRAGProcessor.parse_transcript                               *)

\* len(line) < 100 in the scene-marker test
SceneMaxLen == 100

\* line.startswith('[') or (line.isupper() and len(line) < 100 and ':' not in line)
IsSceneMarker(line) ==
    \/ StartsWith(line, "[")
    \/ (IsUpper(line) /\ Len(line) < SceneMaxLen /\ ":" \notin Range(line))

\* the class [a-zA-Z\s\'\.\-] of the character pattern
NameChars ==
    Range(UpperLetters) \cup Range(LowerLetters) \cup Whitespace \cup { "'", ".", "-" }

\* position of the first ':' of s, 0 when there is none
FirstColon(s) ==
    LET at == { k \in DOMAIN s : s[k] = ":" }
    IN  IF at = {} THEN 0 ELSE Min(at)

\* whether ^[A-Z][a-zA-Z\s\'\.\-]+?\s*: matches at the start of s: every
\* character before the colon it ends on is of the class or blank, so that
\* colon is the first one of s, and the class takes at least one character
MatchesCharacterPrefix(s) ==
    LET c == FirstColon(s)
    IN  /\ c >= 3
        /\ IsUpperChar(s[1])
        /\ \A k \in 2..(c - 1) : s[k] \in NameChars

\* re.match(r'^([A-Z][a-zA-Z\s\'\.\-]+?)\s*:\s*(.*)$', line): group 1 is the
\* shortest prefix of two or more characters that only blanks separate from
\* the colon, group 2 is what follows the colon and the blanks after it
MatchCharacterLine(line) ==
    IF ~MatchesCharacterPrefix(line)
    THEN [ matched |-> FALSE, g1 |-> << >>, g2 |-> << >> ]
    ELSE LET c    == FirstColon(line)
             e    == Min({ k \in 2..(c - 1) :
                             \A j \in (k + 1)..(c - 1) : IsSpace(line[j]) })
             rest == SubSeq(line, c + 1, Len(line))
             text == { k \in DOMAIN rest : ~IsSpace(rest[k]) }
         IN  [ matched |-> TRUE,
               g1 |-> SubSeq(line, 1, e),
               g2 |-> IF text = {} THEN << >>
                      ELSE SubSeq(rest, Min(text), Len(rest)) ]

RECURSIVE RemoveFrom(_, _)
RemoveFrom(s, k) ==
    IF k > Len(s) THEN << >>
    ELSE LET close == { j \in (k + 1)..Len(s) : s[j] = ")" }
         IN  IF s[k] = "(" /\ close # {}
             THEN RemoveFrom(s, Min(close) + 1)
             ELSE << s[k] >> \o RemoveFrom(s, k + 1)

\* re.sub(r'\([^)]*\)', '', s): scanning from the left, a '(' with a ')'
\* somewhere after it is removed together with everything up to the first ')'
RemoveStageDirections(s) == RemoveFrom(s, 1)

\* ['---', '----', '-----', '------', '-------']
DashPlaceholders ==
    { <<"-", "-", "-">>,
      <<"-", "-", "-", "-">>,
      <<"-", "-", "-", "-", "-">>,
      <<"-", "-", "-", "-", "-", "-">>,
      <<"-", "-", "-", "-", "-", "-", "-">> }

RECURSIVE CollectNextLines_NoPushback(_, _, _)
\* a variant that consumes the line that stops the accumulation
CollectNextLines_NoPushback(ls, j, parts) ==
    IF ~(j < Len(ls)) THEN [ i |-> j, parts |-> parts ]
    ELSE LET next_line == Strip(ls[j + 1])
         IN  IF \/ next_line = << >>
                \/ MatchesCharacterPrefix(next_line)
                \/ StartsWith(next_line, "[")
             THEN [ i |-> j, parts |-> parts ]
             ELSE CollectNextLines_NoPushback(ls, j + 1, Append(parts, next_line))

RECURSIVE CollectNextLines_DropsAtEnd(_, _, _)
\* a variant that forgets the parts it holds when the input ends
CollectNextLines_DropsAtEnd(ls, j, parts) ==
    IF ~(j < Len(ls)) THEN [ i |-> j, parts |-> << >> ]
    ELSE LET next_line == Strip(ls[j + 1])
         IN  IF next_line = << >> THEN [ i |-> j, parts |-> parts ]
             ELSE IF MatchesCharacterPrefix(next_line) \/ StartsWith(next_line, "[")
                  THEN [ i |-> j - 1, parts |-> parts ]
             ELSE CollectNextLines_DropsAtEnd(ls, j + 1, Append(parts, next_line))

RECURSIVE CollectNextLines_BacksUpTwo(_, _, _)
\* a variant that backs up by two lines
CollectNextLines_BacksUpTwo(ls, j, parts) ==
    IF ~(j < Len(ls)) THEN [ i |-> j, parts |-> parts ]
    ELSE LET next_line == Strip(ls[j + 1])
         IN  IF next_line = << >> THEN [ i |-> j, parts |-> parts ]
             ELSE IF MatchesCharacterPrefix(next_line) \/ StartsWith(next_line, "[")
                  THEN [ i |-> j - 2, parts |-> parts ]
             ELSE CollectNextLines_BacksUpTwo(ls, j + 1, Append(parts, next_line))

RECURSIVE CollectNextLines(_, _, _)
\* the inner while loop, entered with i already advanced past the character
\* line; returns the parts collected and the value i is left with
CollectNextLines(ls, j, parts) ==
    IF ~(j < Len(ls)) THEN [ i |-> j, parts |-> parts ]
    ELSE LET next_line == Strip(ls[j + 1])
         IN  IF next_line = << >> THEN [ i |-> j, parts |-> parts ]
             ELSE IF MatchesCharacterPrefix(next_line)
                  THEN [ i |-> j - 1, parts |-> parts ]
             ELSE IF StartsWith(next_line, "[")
                  THEN [ i |-> j - 1, parts |-> parts ]
             ELSE CollectNextLines(ls, j + 1, Append(parts, next_line))

\* dialogue_parts and i after the if dialogue_start: ... else: ... statement
CollectDialogue(ls, j, dialogue_start) ==
    IF dialogue_start # << >>
    THEN [ i |-> j, parts |-> << dialogue_start >> ]
    ELSE CollectNextLines(ls, j + 1, << >>)

\* a variant that ignores keep_stage_directions
DialogueText_KeepsDirections(parts, keep) == Strip(Join(parts, << " " >>))

\* dialogue_text as tested by the final if
DialogueText(parts, keep) ==
    LET joined == Strip(Join(parts, << " " >>))
    IN  IF ~keep THEN Strip(RemoveStageDirections(joined)) ELSE joined

\* a variant that tests for the dash placeholders only
HasActualDialogue_DashTestOnly(text) == text \notin DashPlaceholders

\* the test guarding the construction of a Dialogue
HasActualDialogue(text) == text # << >> /\ text \notin DashPlaceholders

Dialogue(character, text, info, n, scene) ==
    [ character      |-> character,
      text           |-> text,
      episode_code   |-> info.episode_code,
      season         |-> info.season,
      episode_number |-> info.episode_number,
      episode_title  |-> info.episode_title,
      line_number    |-> n,
      scene_context  |-> scene ]

\* a variant that numbers a dialogue by the position of its line in the file
NewLineNumber_FromLineIndex(s) == s.i + 1

\* line_number += 1
NewLineNumber(s) == s.line_number + 1

\* the body of "if match:" for the line at index s.i
CharacterIteration(ls, keep, info, s, m) ==
    LET character      == normalize_character_name(Strip(m.g1))
        dialogue_start == Strip(m.g2)
        col            == CollectDialogue(ls, s.i, dialogue_start)
        dialogue_text  == DialogueText(col.parts, keep)
    IN  IF HasActualDialogue(dialogue_text)
        THEN [ s EXCEPT
                 !.line_number = NewLineNumber(s),
                 !.dialogues   = Append(s.dialogues,
                                        Dialogue(character, dialogue_text, info,
                                                 NewLineNumber(s), s.current_scene)),
                 !.opened      = Append(s.opened, s.i),
                 !.i           = col.i + 1 ]
        ELSE [ s EXCEPT !.discarded = Append(s.discarded, s.i),
                        !.i         = col.i + 1 ]

\* one iteration of "while i < len(lines):", on the loop's local state s
ParseIteration(ls, keep, info, s) ==
    LET line == Strip(ls[s.i + 1])
    IN  IF line = << >>
        THEN [ s EXCEPT !.i = s.i + 1 ]
        ELSE IF IsSceneMarker(line)
        THEN [ s EXCEPT !.current_scene = StripChars(line, { "[", "]" }),
                        !.i = s.i + 1 ]
        ELSE LET m == MatchCharacterLine(line)
             IN  IF m.matched
                 THEN CharacterIteration(ls, keep, info, s, m)
                 ELSE [ s EXCEPT !.i = s.i + 1 ]

\* the locals before the loop
ParseStart ==
    [ i             |-> 0,
      current_scene |-> <<"O", "p", "e", "n", "i", "n", "g">>,
      line_number   |-> 0,
      dialogues     |-> << >>,
      opened        |-> << >>,
      discarded     |-> << >> ]

RECURSIVE ParseLoop(_, _, _, _)
ParseLoop(ls, keep, info, s) ==
    IF s.i < Len(ls)
    THEN ParseLoop(ls, keep, info, ParseIteration(ls, keep, info, s))
    ELSE s

\* parse_transcript on a file that reads as the lines ls
parse_transcript(ls, keep, info) == ParseLoop(ls, keep, info, ParseStart).dialogues

---------------------------------------------------------------------------
(* TranscriptToRAGProcessor.parse_episode_filename                         *)

\* whether sub occurs in s at position p
OccursAt(s, sub, p) ==
    p + Len(sub) - 1 <= Len(s) /\ SubSeq(s, p, p + Len(sub) - 1) = sub

RECURSIVE RemoveAll(_, _)
\* s.replace(sub, ''), sub not empty: every occurrence of sub, taken from
\* the left, is removed
RemoveAll(s, sub) ==
    IF s = << >> THEN << >>
    ELSE IF OccursAt(s, sub, 1)
    THEN RemoveAll(SubSeq(s, Len(sub) + 1, Len(s)), sub)
    ELSE << s[1] >> \o RemoveAll(Tail(s), sub)

\* s.replace(old, new), old and new single characters
ReplaceChar(s, old, new) ==
    [ k \in DOMAIN s |-> IF s[k] = old THEN new ELSE s[k] ]

\* re.match(r'(\d+)x(\d+(?:-\d+)?)(?:_(.+))?', s): the groups 1, 2 and 3
\* (group 3 is None when the title part did not take part in the match)
FilenameMatch(s) ==
    LET e1 == DigitRunEnd(s, 1)
        e2 == DigitRunEnd(s, e1 + 2)
        e3 == IF e2 + 1 <= Len(s) /\ s[e2 + 1] = "-"
                 /\ DigitRunEnd(s, e2 + 2) >= e2 + 2
              THEN DigitRunEnd(s, e2 + 2) ELSE e2
    IN  IF /\ e1 >= 1
           /\ e1 + 1 <= Len(s)
           /\ s[e1 + 1] = "x"
           /\ e2 >= e1 + 2
        THEN [ matched |-> TRUE,
               g1 |-> SubSeq(s, 1, e1),
               g2 |-> SubSeq(s, e1 + 2, e3),
               g3 |-> IF e3 + 2 <= Len(s) /\ s[e3 + 1] = "_"
                      THEN SubSeq(s, e3 + 2, Len(s)) ELSE None ]
        ELSE [ matched |-> FALSE, g1 |-> << >>, g2 |-> << >>, g3 |-> None ]

\* episode_str.split('-')[0]
BeforeHyphen(s) ==
    LET at == { k \in DOMAIN s : s[k] = "-" }
    IN  IF at = {} THEN s ELSE SubSeq(s, 1, Min(at) - 1)

\* the episode number of a file: the first number of a double episode
FilenameEpisode(episode_str) == ParseInt(BeforeHyphen(episode_str))

parse_episode_filename(filename) ==
    LET nm == RemoveAll(filename, <<".", "t", "x", "t">>)
        m  == FilenameMatch(nm)
    IN  IF m.matched
        THEN [ season              |-> ParseInt(m.g1),
               episode_number      |-> FilenameEpisode(m.g2),
               episode_code        |-> m.g1 \o << "x" >> \o m.g2,
               title_from_filename |-> ReplaceChar(m.g3, "_", " ") ]
        ELSE None

---------------------------------------------------------------------------
(* TranscriptToRAGProcessor.process_all_transcripts                        *)

\* whether a dict or a str is true as a condition
Truthy(x) == x # << >>

\* whether xs[k] raises IndexError, k a Python index
IndexRaises(xs, k) == k >= Len(xs) \/ k < 0 - Len(xs)

\* xs[k], k a Python index: a negative k counts from the end
ListIndex(xs, k) == IF k >= 0 THEN xs[k + 1] ELSE xs[Len(xs) + k + 1]

\* whether the table holds a list for the season that is long enough
TableHas(info, titles) ==
    /\ info.season \in DOMAIN titles
    /\ info.episode_number - 1 < Len(titles[info.season])

\* whether "Add episode title if available" ends in an IndexError
TitleLookupRaises(info, titles) ==
    /\ Truthy(titles)
    /\ TableHas(info, titles)
    /\ IndexRaises(titles[info.season], info.episode_number - 1)

\* a variant that reads the title written in the filename before the table
EpisodeTitle_FilenameFirst(info, titles) ==
    IF Truthy(info.title_from_filename) THEN info.title_from_filename
    ELSE IF Truthy(titles) /\ TableHas(info, titles)
    THEN ListIndex(titles[info.season], info.episode_number - 1)
    ELSE IF Truthy(titles)
    THEN <<"E", "p", "i", "s", "o", "d", "e", " ">> \o Decimal(info.episode_number)
    ELSE <<"S">> \o Decimal(info.season) \o <<"E">> \o Decimal(info.episode_number)

\* episode_info['episode_title'], where the lookup does not raise
EpisodeTitle(info, titles) ==
    IF Truthy(titles)
    THEN IF TableHas(info, titles)
         THEN ListIndex(titles[info.season], info.episode_number - 1)
         ELSE IF Truthy(info.title_from_filename)
         THEN info.title_from_filename
         ELSE <<"E", "p", "i", "s", "o", "d", "e", " ">> \o Decimal(info.episode_number)
    ELSE IF Truthy(info.title_from_filename)
    THEN info.title_from_filename
    ELSE <<"S">> \o Decimal(info.season) \o <<"E">> \o Decimal(info.episode_number)

\* episode_info after the title was added
WithTitle(info, titles) ==
    [ season              |-> info.season,
      episode_number      |-> info.episode_number,
      episode_code        |-> info.episode_code,
      title_from_filename |-> info.title_from_filename,
      episode_title       |-> EpisodeTitle(info, titles) ]

\* parse_transcript(str(filepath), episode_info): a file that cannot be
\* read gives the empty list
FileDialogues(file, keep, info) ==
    IF file.readable THEN parse_transcript(file.lines, keep, info) ELSE << >>

\* self.dialogues_by_season[season].extend(ds), a defaultdict(list)
ExtendSeason(by_season, season, ds) ==
    IF season \in DOMAIN by_season
    THEN [ by_season EXCEPT ![season] = by_season[season] \o ds ]
    ELSE (season :> ds) @@ by_season

\* the locals and fields of the for loop before its first iteration
ProcessStart ==
    [ fi                  |-> 0,
      episode_info        |-> None,
      all_dialogues       |-> << >>,
      dialogues_by_season |-> << >>,
      raised              |-> FALSE ]

\* "continue" at a file whose name gives no episode
AfterUnresolved(files, s) ==
    [ s EXCEPT !.fi = s.fi + 1, !.episode_info = None ]

\* one iteration of "for filepath in txt_files:", on the loop's state s
ProcessIteration(files, titles, keep, s) ==
    LET file   == files[s.fi + 1]
        parsed == parse_episode_filename(file.name)
    IN  IF ~Truthy(parsed) THEN AfterUnresolved(files, s)
        ELSE IF TitleLookupRaises(parsed, titles)
        THEN [ s EXCEPT !.episode_info = parsed, !.raised = TRUE ]
        ELSE LET info == WithTitle(parsed, titles)
                 ds   == FileDialogues(file, keep, info)
             IN  [ s EXCEPT
                     !.fi                  = s.fi + 1,
                     !.episode_info        = info,
                     !.all_dialogues       = s.all_dialogues \o ds,
                     !.dialogues_by_season =
                         ExtendSeason(s.dialogues_by_season, info.season, ds) ]

RECURSIVE ProcessLoop(_, _, _, _)
ProcessLoop(files, titles, keep, s) ==
    IF s.fi < Len(files) /\ ~s.raised
    THEN ProcessLoop(files, titles, keep, ProcessIteration(files, titles, keep, s))
    ELSE s

\* the for loop of process_all_transcripts on the files of the directory
process_all_transcripts(files, titles, keep) ==
    ProcessLoop(files, titles, keep, ProcessStart)

---------------------------------------------------------------------------
(* TranscriptFormatConverter._convert_lines                                *)

\* whether the line after index k, trimmed, starts with ':'
NextStartsWithColon(ls, k) ==
    k + 1 < Len(ls) /\ StartsWith(Strip(ls[k + 2]), ":")

RECURSIVE LookAhead_NoNameCheck(_, _, _)
\* a variant that does not stop at the character name of the next unit
LookAhead_NoNameCheck(ls, j, parts) ==
    IF ~(j < Len(ls)) THEN [ j |-> j, parts |-> parts ]
    ELSE LET peek_line == Strip(ls[j + 1])
         IN  IF peek_line = << >> THEN [ j |-> j, parts |-> parts ]
             ELSE IF StartsWith(peek_line, ":") THEN [ j |-> j, parts |-> parts ]
             ELSE LookAhead_NoNameCheck(ls, j + 1, Append(parts, peek_line))

RECURSIVE LookAhead(_, _, _)
\* the inner while loop: j and dialogue_parts as it leaves them
LookAhead(ls, j, parts) ==
    IF ~(j < Len(ls)) THEN [ j |-> j, parts |-> parts ]
    ELSE LET peek_line == Strip(ls[j + 1])
         IN  IF peek_line = << >> THEN [ j |-> j, parts |-> parts ]
             ELSE IF StartsWith(peek_line, ":") THEN [ j |-> j, parts |-> parts ]
             ELSE IF NextStartsWithColon(ls, j) THEN [ j |-> j, parts |-> parts ]
             ELSE LookAhead(ls, j + 1, Append(parts, peek_line))

\* a variant that goes on after the line that ended the look-ahead
ConvertIteration_SkipsStop(ls, s) ==
    LET line == ls[s.i + 1]
    IN  IF NextStartsWithColon(ls, s.i)
        THEN LET next_line     == Strip(ls[s.i + 2])
                 character     == Strip(line)
                 dialogue      == Strip(Tail(next_line))
                 look          == LookAhead(ls, s.i + 2, << dialogue >>)
                 full_dialogue == Join(look.parts, << " " >>)
             IN  [ i         |-> look.j + 1,
                   converted |-> Append(s.converted,
                                        character \o << ":", " " >> \o full_dialogue) ]
        ELSE IF Strip(line) # << >>
        THEN [ i |-> s.i + 1, converted |-> Append(s.converted, line) ]
        ELSE [ i |-> s.i + 1, converted |-> s.converted ]

\* one iteration of "while i < len(lines):", on the loop's local state s; a
\* line is held without its newline, which rstrip drops and append restores
ConvertIteration(ls, s) ==
    LET line == ls[s.i + 1]
    IN  IF NextStartsWithColon(ls, s.i)
        THEN LET next_line     == Strip(ls[s.i + 2])
                 character     == Strip(line)
                 dialogue      == Strip(Tail(next_line))
                 look          == LookAhead(ls, s.i + 2, << dialogue >>)
                 full_dialogue == Join(look.parts, << " " >>)
             IN  [ i         |-> look.j,
                   converted |-> Append(s.converted,
                                        character \o << ":", " " >> \o full_dialogue) ]
        ELSE IF Strip(line) # << >>
        THEN [ i |-> s.i + 1, converted |-> Append(s.converted, line) ]
        ELSE [ i |-> s.i + 1, converted |-> s.converted ]

RECURSIVE ConvertLoop(_, _)
ConvertLoop(ls, s) ==
    IF s.i < Len(ls) THEN ConvertLoop(ls, ConvertIteration(ls, s)) ELSE s

convert_lines(ls) == ConvertLoop(ls, [ i |-> 0, converted |-> << >> ]).converted

\* what content.split('\n') gives for the file convert_file writes: every
\* converted line ends with a newline, so an empty string follows the last
FileLines(out) == Append(out, << >>)

---------------------------------------------------------------------------
(* The inputs of the model                                                 *)

\* lines a transcript file may hold
LinePool ==
    { <<>>,
      <<"[", "L", "o", "b", "b", "y", "]">>,
      <<"D", "E", "S", "K">>,
      <<"J", "i", "m", ":", " ", "H", "i">>,
      <<"M", "i", "c", "h", "e", "a", "l", " ", ":">>,
      <<"t", "h", "e", "r", "e">>,
      <<"-", "-", "-", "-">>,
      <<"J", "i", "m", ":", " ", "-">>,
      <<"P", "a", "m", ":", " ", "(", "x", ")", " ", "H", "i">>,
      <<"P", "a", "m", ":", " ", "(", "x", ")">>,
      <<"P", "a", "m", ":", " ", ")", " ", "(", "(", "x", ")", " ", "y">> }

SeqsUpTo(S, n) == UNION { [ 1..k -> S ] : k \in 1..n }

\* an episode_info as process_all_transcripts passes it
EpisodeInfos ==
    { [ season         |-> 1,
        episode_number |-> 1,
        episode_code   |-> <<"0", "1", "x", "0", "1">>,
        episode_title  |-> <<"P", "i", "l", "o", "t">> ] }

---------------------------------------------------------------------------
(* parse_transcript as a state machine: one step per loop iteration        *)

Locals ==
    [ i             |-> i,
      current_scene |-> current_scene,
      line_number   |-> line_number,
      dialogues     |-> dialogues,
      opened        |-> opened,
      discarded     |-> discarded ]

SetLocals(s) ==
    /\ i'             = s.i
    /\ current_scene' = s.current_scene
    /\ line_number'   = s.line_number
    /\ dialogues'     = s.dialogues
    /\ opened'        = s.opened
    /\ discarded'     = s.discarded

Iterate ==
    /\ SetLocals(ParseIteration(lines, keep_stage_directions, episode_info, Locals))
    /\ UNCHANGED << lines, keep_stage_directions, episode_info, pc >>
    /\ UNCHANGED << convertVars, normalizeVars, titleVars, batchVars >>

CurrentLine == Strip(lines[i + 1])

\* the locals as they are when the loop is entered
AtParseStart ==
    /\ i = ParseStart.i
    /\ current_scene = ParseStart.current_scene
    /\ line_number = ParseStart.line_number
    /\ dialogues = ParseStart.dialogues
    /\ opened = ParseStart.opened
    /\ discarded = ParseStart.discarded

\* the variables of the operations a specification does not run
ParseIdle ==
    /\ lines = << >>
    /\ keep_stage_directions = TRUE
    /\ episode_info \in EpisodeInfos
    /\ AtParseStart

ConvertIdle == raw_lines = << >> /\ ci = 0 /\ converted = << >>

NormalizeIdle == name = << >> /\ normalized = << >> /\ renormalized = << >>

TitleIdle == title = << >> /\ written = << >> /\ episode = << >>

ProcessIdle ==
    /\ txt_files = << >> /\ episode_titles = << >> /\ fi = 0
    /\ all_dialogues = << >> /\ dialogues_by_season = << >>
    /\ total_files = 0 /\ total_dialogues = 0

UnitsIdle == units = << >>

CallsIdle == calls = 0

ScraperIdle ==
    /\ topics = << >> /\ episodes_by_season = << >> /\ total_episodes = 0
    /\ saved = {} /\ resumed = << >> /\ transcript = << >>

SimpleIdle == simple = << >>

OtherIdle == CallsIdle /\ ScraperIdle /\ SimpleIdle

BatchIdle == ProcessIdle /\ UnitsIdle /\ OtherIdle

InitParse ==
    /\ lines \in SeqsUpTo(LinePool, MaxLines)
    /\ keep_stage_directions \in BOOLEAN
    /\ episode_info \in EpisodeInfos
    /\ AtParseStart
    /\ ConvertIdle /\ NormalizeIdle /\ TitleIdle /\ BatchIdle
    /\ pc = "loop"

SkipEmptyLine ==
    /\ pc = "loop" /\ i < Len(lines)
    /\ CurrentLine = << >>
    /\ Iterate

SceneMarker ==
    /\ pc = "loop" /\ i < Len(lines)
    /\ CurrentLine # << >>
    /\ IsSceneMarker(CurrentLine)
    /\ Iterate

CharacterDialogue ==
    /\ pc = "loop" /\ i < Len(lines)
    /\ CurrentLine # << >>
    /\ ~IsSceneMarker(CurrentLine)
    /\ MatchCharacterLine(CurrentLine).matched
    /\ Iterate

OtherLine ==
    /\ pc = "loop" /\ i < Len(lines)
    /\ CurrentLine # << >>
    /\ ~IsSceneMarker(CurrentLine)
    /\ ~MatchCharacterLine(CurrentLine).matched
    /\ Iterate

ReturnDialogues ==
    /\ pc = "loop" /\ ~(i < Len(lines))
    /\ pc' = "done"
    /\ UNCHANGED << parseVars, convertVars, normalizeVars, titleVars, batchVars >>

ParseNext ==
    \/ SkipEmptyLine
    \/ SceneMarker
    \/ CharacterDialogue
    \/ OtherLine
    \/ ReturnDialogues

Next == ParseNext

Spec == InitParse /\ [][Next]_vars

---------------------------------------------------------------------------
(* convert_file followed by parse_transcript on the file it wrote          *)

\* lines a transcript in the old layout may hold: names, ': text' lines,
\* and lines of neither kind
RawLinePool ==
    { <<"J", "i", "m">>,
      <<"p", "a", "m">>,
      <<"[", "L", "o", "b", "b", "y", "]">>,
      <<":", " ", "H", "i">>,
      <<":">>,
      <<>> }

InitFormat ==
    /\ raw_lines \in SeqsUpTo(RawLinePool, MaxRawLines)
    /\ ci = 0 /\ converted = << >>
    /\ lines = << >>
    /\ keep_stage_directions \in BOOLEAN
    /\ episode_info \in EpisodeInfos
    /\ AtParseStart
    /\ NormalizeIdle /\ TitleIdle /\ BatchIdle
    /\ pc = "convert"

ConvertStep ==
    LET s == ConvertIteration(raw_lines, [ i |-> ci, converted |-> converted ])
    IN  /\ ci' = s.i
        /\ converted' = s.converted
        /\ UNCHANGED << raw_lines, parseVars, normalizeVars, titleVars, batchVars, pc >>

ConvertSplitName ==
    /\ pc = "convert" /\ ci < Len(raw_lines)
    /\ NextStartsWithColon(raw_lines, ci)
    /\ ConvertStep

ConvertKeepLine ==
    /\ pc = "convert" /\ ci < Len(raw_lines)
    /\ ~NextStartsWithColon(raw_lines, ci)
    /\ Strip(raw_lines[ci + 1]) # << >>
    /\ ConvertStep

ConvertSkipBlank ==
    /\ pc = "convert" /\ ci < Len(raw_lines)
    /\ ~NextStartsWithColon(raw_lines, ci)
    /\ Strip(raw_lines[ci + 1]) = << >>
    /\ ConvertStep

\* _convert_lines returns, convert_file writes the file, and parse_transcript
\* reads it
ConvertReturn ==
    /\ pc = "convert" /\ ~(ci < Len(raw_lines))
    /\ lines' = FileLines(converted)
    /\ pc' = "loop"
    /\ UNCHANGED << keep_stage_directions, episode_info, i, current_scene,
                    line_number, dialogues, opened, discarded >>
    /\ UNCHANGED << convertVars, normalizeVars, titleVars, batchVars >>

FormatNext ==
    \/ ConvertSplitName
    \/ ConvertKeepLine
    \/ ConvertSkipBlank
    \/ ConvertReturn
    \/ ParseNext

SpecFormat == InitFormat /\ [][FormatNext]_vars

\* raw is a sequence of utterances in the split layout: a name on its own
\* line, then a line ': text'
IsSplitLayout(raw) ==
    /\ Len(raw) % 2 = 0
    /\ \A k \in 1..(Len(raw) \div 2) : StartsWith(raw[2 * k], ":")

\* the same utterances in the inline layout 'name: text'
InlineLayout(raw) ==
    [ k \in 1..(Len(raw) \div 2) |->
        raw[2 * k - 1] \o << ":", " " >> \o Strip(Tail(raw[2 * k])) ]

\* character, text and line_number of each dialogue, in order
Utterances(ds) ==
    [ k \in DOMAIN ds |-> << ds[k].character, ds[k].text, ds[k].line_number >> ]

\* C3: utterances in the split layout, passed through _convert_lines and
\* then parse_transcript, give the same character, text and line_number, in
\* the same order, as the inline layout passed to parse_transcript
C3_FormatEquivalence ==
    (pc = "done" /\ IsSplitLayout(raw_lines)) =>
        Utterances(dialogues) =
            Utterances(parse_transcript(InlineLayout(raw_lines),
                                        keep_stage_directions, episode_info))

\* two utterances in the split layout were converted and parsed into two
\* dialogues
C3_Witness ==
    /\ pc = "done" /\ IsSplitLayout(raw_lines)
    /\ Len(raw_lines) = 4 /\ Len(dialogues) = 2

---------------------------------------------------------------------------
(* normalize_character_name, applied to a name and again to its result     *)

Lower(s) == [ k \in DOMAIN s |-> ToLower(s[k]) ]

Upper(s) == [ k \in DOMAIN s |-> ToUpper(s[k]) ]

\* s with its blanks doubled and a blank at either end
Widen(s) == << " " >> \o Join(Split(s), << " ", " " >>) \o << "\t" >>

NameAlphabet == { "a", "B", " ", "'" }

MappingKeys == { character_mappings[k][1] : k \in DOMAIN character_mappings }

MappingValues == { character_mappings[k][2] : k \in DOMAIN character_mappings }

\* names as a transcript may spell them: short names over NameAlphabet, and
\* the names of the mapping in several spellings
NameInputs ==
    SeqsUpTo(NameAlphabet, MaxNameLen)
        \cup MappingKeys \cup MappingValues
        \cup { Lower(k) : k \in MappingKeys }
        \cup { Upper(k) : k \in MappingKeys }
        \cup { Widen(k) : k \in MappingKeys }

InitNormalize ==
    /\ name \in NameInputs
    /\ normalized = << >> /\ renormalized = << >>
    /\ ParseIdle /\ ConvertIdle /\ TitleIdle /\ BatchIdle
    /\ pc = "normalize"

Normalize ==
    /\ pc = "normalize"
    /\ normalized' = normalize_character_name(name)
    /\ pc' = "normalized"
    /\ UNCHANGED << name, renormalized, parseVars, convertVars, titleVars, batchVars >>

NormalizeAgain ==
    /\ pc = "normalized"
    /\ renormalized' = normalize_character_name(normalized)
    /\ pc' = "renormalized"
    /\ UNCHANGED << name, normalized, parseVars, convertVars, titleVars, batchVars >>

NormalizeNext == Normalize \/ NormalizeAgain

SpecNormalize == InitNormalize /\ [][NormalizeNext]_vars

\* C9: normalize_character_name is idempotent; no canonical value of the
\* mapping is a key that maps to another name, and every canonical value is
\* a fixed point of the whitespace-collapse and title-case step
C9_NormalizeIdempotent ==
    pc = "renormalized" =>
        /\ renormalized = normalized
        /\ \A v \in MappingValues :
               /\ MappingGet(v, v) = v
               /\ Title(Join(Split(v), << " " >>)) = v

\* a name that reaches its canonical value only through the case and
\* whitespace step, normalized twice
C9_Witness ==
    /\ pc = "renormalized"
    /\ name \notin MappingKeys
    /\ normalized \in MappingValues
    /\ normalized # name

---------------------------------------------------------------------------
(* The title resolvers, applied to the title of an episode page            *)

\* n as a title writes it: plain, or zero-padded to two digits
Written(n, padded) == IF padded THEN Zfill(Decimal(n), 2) ELSE Decimal(n)

TitleNames ==
    { <<>>,
      <<" ", "P", "i", "l", "o", "t">>,
      <<" ", "A", ".", "A", ".", "R", ".", "M", ".", " ", "-", " ", "T", "h", "e", " ", "O", "f", "f", "i", "c", "e">> }

\* '<season>x<ep1>[/<ep2>] <title>', with the numbers it was written from; the
\* second number of a double episode is the one after the first
TitlesWritten ==
    { [ written |-> [ season |-> s, ep1 |-> e, double |-> d, ep2 |-> e + 1 ],
        title   |-> Written(s, ps) \o << "x" >> \o Written(e, pe)
                      \o (IF d THEN << "/" >> \o Written(e + 1, pe) ELSE << >>)
                      \o nm ] :
        s \in 0..MaxSeason, e \in 0..MaxEpisode,
        ps \in BOOLEAN, pe \in BOOLEAN, d \in BOOLEAN, nm \in TitleNames }

\* the example of the double-episode finale
TitleExamples ==
    { [ written |-> [ season |-> 9, ep1 |-> 24, double |-> TRUE, ep2 |-> 25 ],
        title   |-> <<"9", "x", "2", "4", "/", "2", "5", " ", "A", ".", "A", ".", "R", ".", "M", ".">> ] }

\* n times the letter a
LongWord(n) == [ k \in 1 .. n |-> "a" ]

\* titles whose names exercise _sanitize_filename: a tab between two words,
\* punctuation and runs of spaces, and names longer than the slug may be
SlugExamples ==
    { [ written |-> [ season |-> 5, ep1 |-> 27, double |-> FALSE, ep2 |-> 28 ],
        title   |-> <<"5", "x", "2", "7", " ", "C", "a", "f", "e">> \o << "\t" >> \o <<"D", "i", "s", "c", "o">> ],
      [ written |-> [ season |-> 4, ep1 |-> 3, double |-> FALSE, ep2 |-> 4 ],
        title   |-> <<"4", "x", "3", " ", "D", "u", "n", "d", "e", "r", " ", " ", "M", "i", "f", "f", "l", "i", "n", ",", " ", "I", "n", "f", "i", "n", "i", "t", "y", "!">> ],
      [ written |-> [ season |-> 2, ep1 |-> 3, double |-> FALSE, ep2 |-> 4 ],
        title   |-> <<"2", "x", "3", " ">> \o LongWord(MaxSlugLen - 1) \o <<" ", "b">> ],
      [ written |-> [ season |-> 2, ep1 |-> 4, double |-> FALSE, ep2 |-> 5 ],
        title   |-> <<"2", "x", "4", " ">> \o LongWord(MaxSlugLen + 5) ] }

\* titles without an episode code
TitlesUnresolved ==
    { [ written |-> None, title |-> <<"P", "i", "l", "o", "t">> ],
      [ written |-> None, title |-> <<"9", "x">> ] }

InitTitle ==
    /\ \E t \in TitlesWritten \cup TitleExamples \cup SlugExamples
                  \cup TitlesUnresolved :
           title = t.title /\ written = t.written
    /\ episode = None
    /\ ParseIdle /\ ConvertIdle /\ NormalizeIdle /\ BatchIdle
    /\ pc = "title"

ParseEpisodeTitle ==
    /\ pc = "title"
    /\ episode' = parse_episode_title(title)
    /\ pc' = "scraper"
    /\ UNCHANGED << title, written, parseVars, convertVars, normalizeVars, batchVars >>

ExtractEpisodeInfo ==
    /\ pc = "title"
    /\ episode' = episode_from_page_title(title)
    /\ pc' = "single"
    /\ UNCHANGED << title, written, parseVars, convertVars, normalizeVars, batchVars >>

TitleNext == ParseEpisodeTitle \/ ExtractEpisodeInfo

SpecTitle == InitTitle /\ [][TitleNext]_vars

\* n zero-padded to two digits
ZeroPad2(n) == IF n < 10 THEN << "0", Digits[n + 1] >> ELSE Decimal(n)

\* C10: for a title '<season>x<ep1>/<ep2> <title>' both resolvers return the
\* code zeroPad2(season) x zeroPad2(ep1) - zeroPad2(ep2) and the episode
\* number ep1; for a single episode the code zeroPad2(season) x zeroPad2(ep1)
C10_EpisodeCode ==
    (pc \in { "scraper", "single" } /\ written # None) =>
        /\ episode # None
        /\ episode.season = written.season
        /\ episode.episode_num = written.ep1
        /\ episode.episode_code =
               ZeroPad2(written.season) \o << "x" >> \o ZeroPad2(written.ep1)
                   \o (IF written.double
                       THEN << "-" >> \o ZeroPad2(written.ep2) ELSE << >>)

\* the scraper resolved '9x24/25 A.A.R.M.'
C10_Witness ==
    /\ pc = "scraper"
    /\ title \in { t.title : t \in TitleExamples }
    /\ episode # None
    /\ episode.episode_num = 24

---------------------------------------------------------------------------
(* Properties of parse_transcript, checked under Spec                      *)

Done == pc = "done"

\* the match of the character pattern on the line at index j
CharacterLineAt(j) == MatchCharacterLine(Strip(lines[j + 1]))

\* what follows the colon on the character line at index j
RemainderAt(j) == Strip(CharacterLineAt(j).g2)

\* the space-joined, trimmed text collected for the character line at index j
JoinedAt(j) ==
    Strip(Join(CollectDialogue(lines, j, RemainderAt(j)).parts, << " " >>))

\* C1: the line_number values of the returned dialogues are 1, 2, ..., k in
\* emission order, however many lines or candidate utterances were discarded
C1_LineNumbersContiguous ==
    \A k \in DOMAIN dialogues : dialogues[k].line_number = k

\* two dialogues were emitted around a discarded candidate
C1_Witness ==
    Done /\ Len(dialogues) = 2 /\ opened = << 0, 2 >> /\ discarded = << 1 >>

\* C2: every emitted dialogue has a non-empty character and a non-empty,
\* trimmed text; a candidate whose text is empty gives no dialogue and does
\* not advance the line counter
C2_DialoguesNonEmpty ==
    /\ \A k \in DOMAIN dialogues :
           /\ dialogues[k].character # << >>
           /\ dialogues[k].text # << >>
           /\ Strip(dialogues[k].text) = dialogues[k].text
    /\ line_number = Len(dialogues)
    /\ Done =>
           \A j \in Range(opened) :
               DialogueText(<< JoinedAt(j) >>, keep_stage_directions) # << >>

\* a candidate with empty text was dropped, and a dialogue was emitted
C2_Witness ==
    /\ Done /\ dialogues # << >>
    /\ \E j \in Range(discarded) :
           DialogueText(<< JoinedAt(j) >>, keep_stage_directions) = << >>

IsHyphenRun(t) == t # << >> /\ \A k \in DOMAIN t : t[k] = "-"

\* C4: a character line whose final text is a run of one or more hyphens
\* gives no dialogue and no line_number increment, whatever
\* keep_stage_directions is
C4_HyphenRunsDiscarded ==
    \A k \in DOMAIN dialogues : ~IsHyphenRun(dialogues[k].text)

\* the scene the claim gives an utterance opened at index j: the bracket-
\* stripped text of the last scene-marker line before j, else 'Opening'
SceneBefore(j) ==
    LET markers == { m \in 0..(j - 1) : IsSceneMarker(Strip(lines[m + 1])) }
    IN  IF markers = {} THEN ParseStart.current_scene
        ELSE StripChars(Strip(lines[Max(markers) + 1]), { "[", "]" })

\* C5: every dialogue carries the scene of the most recent scene-marker line
\* before the character line that opens it, or 'Opening' when there is none
C5_SceneOfPrecedingMarker ==
    Done => \A k \in DOMAIN dialogues :
                dialogues[k].scene_context = SceneBefore(opened[k])

RECURSIVE ContinuationsAfter(_, _)
\* the lines from index j on, up to the next Blank, CharacterLine or SceneMarker
ContinuationsAfter(ls, j) ==
    IF ~(j < Len(ls)) THEN << >>
    ELSE LET l == Strip(ls[j + 1])
         IN  IF l = << >> \/ IsSceneMarker(l) \/ MatchesCharacterPrefix(l)
             THEN << >>
             ELSE << l >> \o ContinuationsAfter(ls, j + 1)

\* C6: after a character line with a non-empty remainder, the continuation
\* lines that follow are appended, space-joined, to the utterance's text
C6_ContinuationsAppended ==
    Done => \A k \in DOMAIN dialogues :
                RemainderAt(opened[k]) # << >> =>
                    dialogues[k].text =
                        DialogueText(<< RemainderAt(opened[k]) >>
                                        \o ContinuationsAfter(lines, opened[k] + 1),
                                     keep_stage_directions)

\* C7: after a character line with an empty remainder, lines are consumed as
\* continuations only up to the first Blank, CharacterLine or SceneMarker, an
\* all-upper-case line included, which never becomes part of the text
C7_StopsAtSceneMarker ==
    Done => \A k \in DOMAIN dialogues :
                RemainderAt(opened[k]) = << >> =>
                    dialogues[k].text =
                        DialogueText(ContinuationsAfter(lines, opened[k] + 1),
                                     keep_stage_directions)

\* no '(' of t is followed later by a ')'
NoDirectionLeft(t) ==
    ~ \E a, b \in DOMAIN t : a < b /\ t[a] = "(" /\ t[b] = ")"

\* t is one parenthesized direction and nothing else
IsDirectionOnly(t) ==
    /\ Len(t) >= 2 /\ t[1] = "(" /\ t[Len(t)] = ")"
    /\ \A k \in 2..(Len(t) - 1) : t[k] \notin { "(", ")" }

\* C8: with keep_stage_directions false no emitted text holds a '(' followed
\* later by a ')', the text is trimmed, and an utterance that is only a
\* parenthesized direction gives no dialogue; with keep_stage_directions true
\* the joined text is emitted unchanged
C8_StageDirections ==
    /\ ~keep_stage_directions =>
           \A k \in DOMAIN dialogues :
               /\ NoDirectionLeft(dialogues[k].text)
               /\ Strip(dialogues[k].text) = dialogues[k].text
    /\ (~keep_stage_directions /\ Done) =>
           \A j \in Range(opened) : ~IsDirectionOnly(JoinedAt(j))
    /\ (keep_stage_directions /\ Done) =>
           \A k \in DOMAIN dialogues : dialogues[k].text = JoinedAt(opened[k])

\* a direction was cut out of an emitted text, and an utterance that was
\* only a direction was dropped
C8_Witness ==
    /\ Done /\ ~keep_stage_directions
    /\ \E k \in DOMAIN dialogues : dialogues[k].text # JoinedAt(opened[k])
    /\ \E j \in Range(discarded) : IsDirectionOnly(JoinedAt(j))

---------------------------------------------------------------------------
(* process_all_transcripts as a state machine: one step per file           *)

\* files of the input directory
MaxFiles == 2

\* the characters of a filename, in the order of their code points
CodePoints ==
    <<" ", "'", "(", ")", "-", ".", "0", "1", "2", "3", "4", "5", "6", "7", "8", "9", ":">> \o UpperLetters \o <<"[", "]", "_">> \o LowerLetters

Ord(c) == CHOOSE k \in DOMAIN CodePoints : CodePoints[k] = c

\* a < b for two str
StrLess(a, b) ==
    \E k \in 1..Len(b) :
        /\ k - 1 <= Len(a)
        /\ SubSeq(a, 1, k - 1) = SubSeq(b, 1, k - 1)
        /\ (k > Len(a) \/ Ord(a[k]) < Ord(b[k]))

RECURSIVE SortedByName(_)
\* sorted(...) of a set of files with distinct names
SortedByName(files) ==
    IF files = {} THEN << >>
    ELSE LET first == CHOOSE f \in files :
                          \A g \in files \ { f } : StrLess(f.name, g.name)
         IN  << first >> \o SortedByName(files \ { first })

\* names of the .txt files a directory may hold
FilenamePool ==
    { <<"0", "0", "x", "0", "0", ".", "t", "x", "t">>,
      <<"0", "1", "x", "0", "0", ".", "t", "x", "t">>,
      <<"0", "1", "x", "0", "1", "_", "P", "i", "l", "o", "t", ".", "t", "x", "t">>,
      <<"0", "1", "x", "0", "2", ".", "t", "x", "t">>,
      <<"1", "x", "1", ".", "t", "x", "t">>,
      <<"1", ".", "t", "x", "t", "x", "2", ".", "t", "x", "t">>,
      <<"0", "9", "x", "2", "4", "-", "2", "5", "_", "A", "_", "B", ".", "t", "x", "t">>,
      <<"r", "a", "n", "d", "o", "m", "f", "i", "l", "e", ".", "t", "x", "t">> }

\* what a file may hold; a file that is not readable raises in open or read
ContentPool ==
    { [ readable |-> FALSE, lines |-> << >> ],
      [ readable |-> TRUE,  lines |-> << <<"J", "i", "m", ":", " ", "H", "i">> >> ],
      [ readable |-> TRUE,  lines |-> << <<"[", "L", "o", "b", "b", "y", "]">>, <<"P", "a", "m", ":", " ", "(", "x", ")", " ", "H", "i">>, <<"M", "i", "c", "h", "e", "a", "l", " ", ":", " ", "y", "o">> >> ] }

\* the directories: up to MaxFiles files, no two with the same name
Directories ==
    UNION { { { [ name |-> n, readable |-> holds[n].readable, lines |-> holds[n].lines ] :
                  n \in names } :
              holds \in [ names -> ContentPool ] } :
            names \in { ns \in SUBSET FilenamePool : Cardinality(ns) <= MaxFiles } }

\* the episode_titles argument: None, or a dict from season to titles
TitleTables ==
    { None,
      (1 :> << >>),
      (1 :> << <<"B", "a", "s", "k", "e", "t", "b", "a", "l", "l">> >>),
      (1 :> << <<"B", "a", "s", "k", "e", "t", "b", "a", "l", "l">>, <<"H", "o", "t", " ", "G", "i", "r", "l">> >>),
      (9 :> << <<"F", "i", "n", "a", "l", "e">> >>) }

ProcessLocals ==
    [ fi                  |-> fi,
      episode_info        |-> episode_info,
      all_dialogues       |-> all_dialogues,
      dialogues_by_season |-> dialogues_by_season,
      raised              |-> pc = "raised" ]

InitProcess ==
    /\ txt_files \in { SortedByName(d) : d \in Directories }
    /\ episode_titles \in TitleTables
    /\ keep_stage_directions \in BOOLEAN
    /\ fi = ProcessStart.fi
    /\ episode_info = ProcessStart.episode_info
    /\ all_dialogues = ProcessStart.all_dialogues
    /\ dialogues_by_season = ProcessStart.dialogues_by_season
    /\ total_files = 0 /\ total_dialogues = 0
    /\ lines = << >> /\ AtParseStart
    /\ ConvertIdle /\ NormalizeIdle /\ TitleIdle /\ UnitsIdle /\ OtherIdle
    /\ pc = "start"

ProcessFrame ==
    UNCHANGED << lines, keep_stage_directions, i, current_scene, line_number,
                 dialogues, opened, discarded, txt_files, episode_titles,
                 convertVars, normalizeVars, titleVars, unitVars, otherVars >>

\* "if not txt_files:": nothing to process
NoTranscripts ==
    /\ pc = "start" /\ txt_files = << >>
    /\ pc' = "done"
    /\ UNCHANGED << episode_info, fi, all_dialogues, dialogues_by_season,
                    total_files, total_dialogues >>
    /\ ProcessFrame

StartProcessing ==
    /\ pc = "start" /\ txt_files # << >>
    /\ total_files' = Len(txt_files)
    /\ pc' = "files"
    /\ UNCHANGED << episode_info, fi, all_dialogues, dialogues_by_season,
                    total_dialogues >>
    /\ ProcessFrame

CurrentFile == txt_files[fi + 1]

ProcessStep ==
    \E s \in { ProcessIteration(txt_files, episode_titles, keep_stage_directions,
                                ProcessLocals) } :
        /\ fi' = s.fi
        /\ episode_info' = s.episode_info
        /\ all_dialogues' = s.all_dialogues
        /\ dialogues_by_season' = s.dialogues_by_season
        /\ pc' = IF s.raised THEN "raised" ELSE pc
        /\ UNCHANGED << total_files, total_dialogues >>
        /\ ProcessFrame

\* "Skipping ... - couldn't parse episode info"
SkipUnresolved ==
    /\ pc = "files" /\ fi < Len(txt_files)
    /\ ~Truthy(parse_episode_filename(CurrentFile.name))
    /\ ProcessStep

\* the title is set and the file is parsed
ProcessFile ==
    /\ pc = "files" /\ fi < Len(txt_files)
    /\ Truthy(parse_episode_filename(CurrentFile.name))
    /\ ~TitleLookupRaises(parse_episode_filename(CurrentFile.name), episode_titles)
    /\ ProcessStep

\* the title lookup raises IndexError, which nothing catches
RaiseIndexError ==
    /\ pc = "files" /\ fi < Len(txt_files)
    /\ Truthy(parse_episode_filename(CurrentFile.name))
    /\ TitleLookupRaises(parse_episode_filename(CurrentFile.name), episode_titles)
    /\ ProcessStep

FinishProcessing ==
    /\ pc = "files" /\ ~(fi < Len(txt_files))
    /\ total_dialogues' = Len(all_dialogues)
    /\ pc' = "done"
    /\ UNCHANGED << episode_info, fi, all_dialogues, dialogues_by_season,
                    total_files >>
    /\ ProcessFrame

ProcessNext ==
    \/ NoTranscripts
    \/ StartProcessing
    \/ SkipUnresolved
    \/ ProcessFile
    \/ RaiseIndexError
    \/ FinishProcessing

SpecProcess == InitProcess /\ [][ProcessNext]_vars

---------------------------------------------------------------------------
(* Properties of parse_episode_filename and process_all_transcripts        *)

\* the loop has handled at least one file
FileHandled == pc \in { "files", "done", "raised" } /\ (fi >= 1 \/ pc = "raised")

\* the file the loop handled last
LastFile == IF pc = "raised" THEN txt_files[fi + 1] ELSE txt_files[fi]

\* a number written with two digits, or with more and no leading zero
IsZeroPadded2(s) ==
    /\ Len(s) >= 2
    /\ \A k \in DOMAIN s : IsDigit(s[k])
    /\ Len(s) > 2 => s[1] # "0"

\* 'SSxNN' or 'SSxNN-MM'
IsCanonicalCode(c) ==
    \E a \in 1..Len(c) :
        /\ c[a] = "x"
        /\ IsZeroPadded2(SubSeq(c, 1, a - 1))
        /\ \/ IsZeroPadded2(SubSeq(c, a + 1, Len(c)))
           \/ \E b \in (a + 1)..Len(c) :
                  /\ c[b] = "-"
                  /\ IsZeroPadded2(SubSeq(c, a + 1, b - 1))
                  /\ IsZeroPadded2(SubSeq(c, b + 1, Len(c)))

\* C11: the episode_code that parse_episode_filename returns, and that every
\* Dialogue of the unit carries, is 'SSxNN' or 'SSxNN-MM' with each number
\* zero-padded to two digits, whatever padding the filename uses
C11_CanonicalEpisodeCode ==
    /\ (FileHandled /\ Truthy(episode_info)) =>
           IsCanonicalCode(episode_info.episode_code)
    /\ \A k \in DOMAIN all_dialogues :
           IsCanonicalCode(all_dialogues[k].episode_code)

\* the filename without its extension
Stem(filename) == SubSeq(filename, 1, Len(filename) - 4)

\* whether s begins with '<digits>x<digits>'
BeginsWithCode(s) ==
    LET e1 == DigitRunEnd(s, 1)
    IN  /\ e1 >= 1
        /\ e1 + 1 <= Len(s) /\ s[e1 + 1] = "x"
        /\ DigitRunEnd(s, e1 + 2) >= e1 + 2

\* the integers written at the start of a stem that begins with a code
WrittenSeason(s) == ParseInt(SubSeq(s, 1, DigitRunEnd(s, 1)))

WrittenEpisode(s) ==
    LET e1 == DigitRunEnd(s, 1)
    IN  ParseInt(SubSeq(s, e1 + 2, DigitRunEnd(s, e1 + 2)))

\* C13: parse_episode_filename returns None for every filename whose stem
\* does not begin with '<digits>x<digits>', and otherwise the season and the
\* episode number are the integers written in the filename
C13_UnresolvedOrAsWritten ==
    FileHandled =>
        LET stem == Stem(LastFile.name)
        IN  IF BeginsWithCode(stem)
            THEN /\ Truthy(episode_info)
                 /\ episode_info.season = WrittenSeason(stem)
                 /\ episode_info.episode_number = WrittenEpisode(stem)
            ELSE episode_info = None

\* C19: every Dialogue has season >= 1 and episode_number >= 1, for every
\* filename the resolver accepts
C19_PositiveSeasonAndEpisode ==
    \A k \in DOMAIN all_dialogues :
        all_dialogues[k].season >= 1 /\ all_dialogues[k].episode_number >= 1

\* the title a placeholder gives an episode
Placeholders(info) ==
    { <<"E", "p", "i", "s", "o", "d", "e", " ">> \o Decimal(info.episode_number),
      <<"S">> \o Decimal(info.season) \o <<"E">> \o Decimal(info.episode_number) }

\* the loop has given the file it handled last an episode title
TitleResolved == FileHandled /\ pc # "raised" /\ Truthy(episode_info)

\* whether the table has an entry for the episode at index episode_number - 1
HasTableEntry(info) ==
    /\ info.season \in DOMAIN episode_titles
    /\ info.episode_number >= 1
    /\ info.episode_number <= Len(episode_titles[info.season])

TableCovers(info) ==
    /\ info.season \in DOMAIN episode_titles
    /\ info.episode_number - 1 < Len(episode_titles[info.season])

UnitFails(file) ==
    ~Truthy(parse_episode_filename(file.name)) \/ ~file.readable

\* the files that do not fail, in their order
OtherUnits(files) == SelectSeq(files, LAMBDA f : ~UnitFails(f))

\* the run has ended
Ended == pc \in { "done", "raised" }

\* C14: a unit whose episode is not resolved or whose file cannot be read
\* contributes no Dialogue, and the Dialogues of the other units are those
\* of a run on the other units alone
C14_FailingUnitIsolated ==
    Ended =>
        all_dialogues =
            process_all_transcripts(OtherUnits(txt_files), episode_titles,
                                    keep_stage_directions).all_dialogues

\* C15: process_all_transcripts runs to completion for every set of
\* filenames and contents and every season title table
C15_RunsToCompletion == pc # "raised"

---------------------------------------------------------------------------
(* parse_transcript called for several units, the calls' steps interleaved *)

\* units processed side by side
MaxUnits == 2

\* what the file of a unit may hold
UnitTranscripts ==
    { << <<"J", "i", "m", ":", " ", "H", "i">> >>,
      << <<"[", "L", "o", "b", "b", "y", "]">>, <<"P", "a", "m", ":", " ", "(", "x", ")", " ", "H", "i">>, <<"M", "i", "c", "h", "e", "a", "l", " ", ":">>, <<"t", "h", "e", "r", "e">> >>,
      << <<"M", "i", "c", "h", "e", "a", "l", " ", ":">>, <<"D", "E", "S", "K">>, <<"J", "i", "m", ":", " ", "-", "-", "-", "-">> >> }

\* the episode_info of a unit
UnitInfos ==
    { [ season         |-> 1,
        episode_number |-> 1,
        episode_code   |-> <<"0", "1", "x", "0", "1">>,
        episode_title  |-> <<"P", "i", "l", "o", "t">> ],
      [ season         |-> 9,
        episode_number |-> 24,
        episode_code   |-> <<"0", "9", "x", "2", "4", "-", "2", "5">>,
        episode_title  |-> <<"A", ".", "A", ".", "R", ".", "M", ".">> ] }

\* a call before its first statement
NewUnit(ls, info) ==
    [ lines         |-> ls,
      episode_info  |-> info,
      status        |-> "new",
      i             |-> ParseStart.i,
      current_scene |-> ParseStart.current_scene,
      line_number   |-> ParseStart.line_number,
      dialogues     |-> ParseStart.dialogues,
      opened        |-> ParseStart.opened,
      discarded     |-> ParseStart.discarded ]

InitUnits ==
    /\ \E n \in 1..MaxUnits :
           units \in [ 1..n -> { NewUnit(ls, info) :
                                   ls \in UnitTranscripts, info \in UnitInfos } ]
    /\ keep_stage_directions \in BOOLEAN
    /\ lines = << >> /\ episode_info \in EpisodeInfos /\ AtParseStart
    /\ ConvertIdle /\ NormalizeIdle /\ TitleIdle /\ ProcessIdle /\ OtherIdle
    /\ pc = "units"

\* a variant in which the calls count their dialogues on one counter, kept
\* on the processor
UnitLocals_SharedCounter(u) ==
    [ i             |-> units[u].i,
      current_scene |-> units[u].current_scene,
      line_number   |-> Max({ units[v].line_number : v \in DOMAIN units }),
      dialogues     |-> units[u].dialogues,
      opened        |-> units[u].opened,
      discarded     |-> units[u].discarded ]

\* the locals of the call for unit u
UnitLocals(u) ==
    [ i             |-> units[u].i,
      current_scene |-> units[u].current_scene,
      line_number   |-> units[u].line_number,
      dialogues     |-> units[u].dialogues,
      opened        |-> units[u].opened,
      discarded     |-> units[u].discarded ]

\* the call for unit u goes on with the locals s
SetUnit(u, status, s) ==
    units' = [ units EXCEPT ![u] =
                 [ lines         |-> units[u].lines,
                   episode_info  |-> units[u].episode_info,
                   status        |-> status,
                   i             |-> s.i,
                   current_scene |-> s.current_scene,
                   line_number   |-> s.line_number,
                   dialogues     |-> s.dialogues,
                   opened        |-> s.opened,
                   discarded     |-> s.discarded ] ]

UnitsFrame ==
    UNCHANGED << parseVars, convertVars, normalizeVars, titleVars, processVars,
                 otherVars, pc >>

\* the statements before the loop
CallUnit(u) ==
    /\ pc = "units" /\ units[u].status = "new"
    /\ SetUnit(u, "loop", ParseStart)
    /\ UnitsFrame

\* one iteration of the loop of the call for unit u
IterateUnit(u) ==
    /\ pc = "units" /\ units[u].status = "loop"
    /\ units[u].i < Len(units[u].lines)
    /\ \E s \in { ParseIteration(units[u].lines, keep_stage_directions,
                                 units[u].episode_info, UnitLocals(u)) } :
           SetUnit(u, "loop", s)
    /\ UnitsFrame

ReturnUnit(u) ==
    /\ pc = "units" /\ units[u].status = "loop"
    /\ ~(units[u].i < Len(units[u].lines))
    /\ SetUnit(u, "done", UnitLocals(u))
    /\ UnitsFrame

UnitsNext ==
    \E u \in DOMAIN units :
        \/ CallUnit(u)
        \/ IterateUnit(u)
        \/ ReturnUnit(u)

SpecUnits == InitUnits /\ [][UnitsNext]_vars

\* C16: the Dialogues of a unit are those of parse_transcript on the unit's
\* lines, its episode info and the configuration alone, however the steps of
\* the units interleave; a call starts its line counter at 0 and its scene
\* at 'Opening'; no step changes keep_stage_directions or the lines and the
\* episode_info of any unit
C16_UnitsIndependent ==
    /\ [](\A u \in DOMAIN units :
            /\ units[u].status = "new" =>
                   units[u].line_number = 0 /\ units[u].current_scene = <<"O", "p", "e", "n", "i", "n", "g">>
            /\ units[u].status = "done" =>
                   units[u].dialogues =
                       parse_transcript(units[u].lines, keep_stage_directions,
                                        units[u].episode_info))
    /\ [][/\ keep_stage_directions' = keep_stage_directions
          /\ DOMAIN units' = DOMAIN units
          /\ \A u \in DOMAIN units :
                 /\ units'[u].lines = units[u].lines
                 /\ units'[u].episode_info = units[u].episode_info]_vars

\* the call for one unit has returned two dialogues while the call for
\* another unit, on another file, is inside its loop with a dialogue of its
\* own
C16_Witness ==
    /\ pc = "units" /\ Len(units) = 2
    /\ units[1].status = "done" /\ Len(units[1].dialogues) >= 2
    /\ units[2].status = "loop" /\ units[2].i < Len(units[2].lines)
    /\ Len(units[2].dialogues) >= 1
    /\ units[1].lines # units[2].lines

---------------------------------------------------------------------------
(* Properties of _convert_lines                                            *)

\* the converter is at an input line
Converting == pc = "convert" /\ ci < Len(raw_lines)

\* line k (counted from 1) exists and, trimmed, begins with ':'
BeginsWithColon(k) ==
    k <= Len(raw_lines) /\ Strip(raw_lines[k]) # << >> /\ Strip(raw_lines[k])[1] = ":"

\* line k continues a unit: it is not blank, does not start with ':' and is
\* not followed by a ':' line
Continues(k) ==
    /\ Strip(raw_lines[k]) # << >>
    /\ ~BeginsWithColon(k)
    /\ ~BeginsWithColon(k + 1)

\* the number of lines after the ':' line of the unit opened at line k that
\* continue it
ContinuationCount(k) ==
    Max({ n \in 0..(Len(raw_lines) - k - 1) :
            \A m \in 1..n : Continues(k + 1 + m) })

\* the inline line of the unit opened at line k
InlineUnit(k) ==
    LET n == ContinuationCount(k)
    IN  Strip(raw_lines[k]) \o << ":", " " >>
        \o Join(<< Strip(Tail(Strip(raw_lines[k + 1]))) >>
                \o [ m \in 1..n |-> Strip(raw_lines[k + 1 + m]) ],
                << " " >>)

\* C17: the converter takes line L for a split character name exactly when
\* the next line, trimmed, begins with ':'; it then emits L trimmed, ': ',
\* and the text after the colon, trimmed, joined by spaces with each
\* following line for as long as it is not blank, does not start with ':'
\* and is not followed by a ':' line, and it resumes at the first line that
\* breaks one of these conditions
C17_SplitNameUnits ==
    [][Converting =>
         IF BeginsWithColon(ci + 2)
         THEN /\ converted' = Append(converted, InlineUnit(ci + 1))
              /\ ci' = ci + 2 + ContinuationCount(ci + 1)
         ELSE /\ ci' = ci + 1
              /\ Len(converted') <= Len(converted) + 1
              /\ \A k \in DOMAIN converted' :
                     k > Len(converted) => converted'[k] = raw_lines[ci + 1]]_vars

\* a unit with a continuation line was emitted, and the converter is at the
\* blank line that ended it
C17_Witness ==
    /\ pc = "convert"
    /\ raw_lines = << <<"J", "i", "m">>, <<":", " ", "H", "i">>, <<"p", "a", "m">>, <<>> >>
    /\ ci = 3
    /\ converted = << <<"J", "i", "m", ":", " ", "H", "i", " ", "p", "a", "m">> >>

\* C18: every input line that is not part of a split-name unit, blank lines
\* included, is passed to the output unchanged, at its place
C18_OtherLinesPassThrough ==
    [][(Converting /\ ~BeginsWithColon(ci + 2)) =>
           converted' = Append(converted, raw_lines[ci + 1])]_vars

---------------------------------------------------------------------------
(* What parse_transcript reports of the lines it drops                     *)

\* the warnings parse_transcript returns beside the Dialogues: it returns
\* the list of Dialogues alone, and keeps no record of a line it drops
ReturnedWarnings == << >>

\* C20: whenever a line is dropped because it is neither blank, nor a scene
\* marker, nor a character line, processing continues and a warning for the
\* line is added to a warnings sequence returned beside the Dialogues
C20_DroppedLineWarned ==
    [][OtherLine =>
           /\ i' = i + 1
           /\ Len(ReturnedWarnings') = Len(ReturnedWarnings) + 1]_vars

---------------------------------------------------------------------------
(* Properties of _sanitize_filename, checked under SpecTitle               *)

\* the characters of [A-Za-z0-9_-]
SlugChars == WordChars \cup { "-" }

\* the slug of the filename '<code>_<slug>.txt' of a resolved episode
SlugOf(ep) ==
    SubSeq(ep.filename, Len(ep.episode_code) + 2, Len(ep.filename) - 4)

\* C21: the slug the scraper derives from an episode name holds only
\* characters of [A-Za-z0-9_-] (spaces having become underscores), is at most
\* 50 characters long and does not end with an underscore
C21_SlugIsSafe ==
    (pc = "scraper" /\ episode # None) =>
        LET slug == SlugOf(episode)
        IN  /\ \A k \in DOMAIN slug : slug[k] \in SlugChars
            /\ Len(slug) <= MaxSlugLen
            /\ slug # << >> => slug[Len(slug)] # "_"

---------------------------------------------------------------------------
(* Properties of the look-ahead of parse_transcript, checked under Spec    *)

\* the character lines the parser started an utterance at
Started == Range(opened) \cup Range(discarded)

\* whether the line at index k ends an accumulation and is to be classified
\* again: a new character line or a scene marker in brackets
IsTerminator(k) ==
    LET l == Strip(lines[k + 1])
    IN  MatchesCharacterPrefix(l) \/ StartsWith(l, "[")

\* the index of the first line from j on that is blank or a terminator, or
\* the number of lines when there is none
StopIndex(j) ==
    LET stops == { k \in j .. (Len(lines) - 1) :
                     Strip(lines[k + 1]) = << >> \/ IsTerminator(k) }
    IN  IF stops = {} THEN Len(lines) ELSE Min(stops)

\* the scene-marker lines strictly between the indexes a and b
MarkersBetween(a, b) ==
    { m \in (a + 1) .. (b - 1) : IsSceneMarker(Strip(lines[m + 1])) }

\* C22: when a name-only character line accumulates up to a new character
\* line or a scene marker in brackets, that line is not consumed: the cursor
\* is left on it (one line back from where the look-ahead stood, never
\* more), so a character line so reached starts an utterance of its own and
\* a scene marker so reached sets the scene of the dialogues that follow it
C22_TerminatorPushedBack ==
    /\ [][(CharacterDialogue /\ RemainderAt(i) = << >>) =>
              LET k == StopIndex(i + 1)
              IN  IF k < Len(lines) /\ IsTerminator(k)
                  THEN i' = k
                  ELSE i' = k + 1]_vars
    /\ [](Done =>
            \A j \in Started :
                LET k == StopIndex(j + 1)
                IN  (RemainderAt(j) = << >> /\ k < Len(lines) /\ IsTerminator(k)) =>
                        /\ MatchesCharacterPrefix(Strip(lines[k + 1])) => k \in Started
                        /\ StartsWith(Strip(lines[k + 1]), "[") =>
                               \A n \in DOMAIN dialogues :
                                   (opened[n] > k /\ MarkersBetween(k, opened[n]) = {}) =>
                                       dialogues[n].scene_context =
                                           StripChars(Strip(lines[k + 1]), { "[", "]" }))

\* a name-only line was followed by a scene marker in brackets and then by a
\* character line, which gave the one dialogue, in the scene of the marker
C22_Witness ==
    /\ Done
    /\ lines = << <<"M", "i", "c", "h", "e", "a", "l", " ", ":">>, <<"[", "L", "o", "b", "b", "y", "]">>, <<"J", "i", "m", ":", " ", "H", "i">> >>
    /\ discarded = << 0 >> /\ opened = << 2 >>
    /\ dialogues[1].scene_context = <<"L", "o", "b", "b", "y">>

\* whether the utterance started at index j was still accumulating when the
\* input ended: a name-only line, one continuation line or more, and no
\* blank or terminator up to the last line
EndsAccumulating(j) ==
    /\ RemainderAt(j) = << >>
    /\ j + 1 < Len(lines)
    /\ StopIndex(j + 1) = Len(lines)

\* the lines after index j, each trimmed
TrimmedAfter(j) ==
    [ k \in 1 .. (Len(lines) - j - 1) |-> Strip(lines[j + 1 + k]) ]

\* C23: when the input ends while a name-only line is accumulating, the
\* pending utterance is flushed as on a blank line: the dialogues are those
\* of the same lines with a blank line added; the utterance gives no dialogue
\* when its text is empty, and when its text is not empty and not a run of
\* hyphens it gives the last dialogue, numbered next after the others
C23_FlushedAtEndOfInput ==
    Done =>
        \A j \in Started :
            EndsAccumulating(j) =>
                LET text == DialogueText(TrimmedAfter(j), keep_stage_directions)
                IN  /\ dialogues = parse_transcript(Append(lines, << >>),
                                                    keep_stage_directions, episode_info)
                    /\ text = << >> => j \in Range(discarded)
                    /\ (text # << >> /\ ~IsHyphenRun(text)) =>
                           /\ dialogues # << >>
                           /\ opened[Len(opened)] = j
                           /\ dialogues[Len(dialogues)].text = text
                           /\ dialogues[Len(dialogues)].line_number = Len(dialogues)

\* after a dialogue of Jim, the input ended on a continuation line of a
\* name-only line, which gave the second dialogue
C23_Witness ==
    /\ Done
    /\ lines = << <<"J", "i", "m", ":", " ", "H", "i">>, <<"M", "i", "c", "h", "e", "a", "l", " ", ":">>, <<"t", "h", "e", "r", "e">> >>
    /\ Len(dialogues) = 2
    /\ dialogues[2].text = <<"t", "h", "e", "r", "e">>
    /\ dialogues[2].line_number = 2

\* whether the indexes of the sequence s strictly increase
StrictlyIncreasing(s) == \A a, b \in DOMAIN s : a < b => s[a] < s[b]

\* C26: every iteration of the outer loop leaves the line index strictly
\* greater than it found it, the pushback of the look-ahead included; the
\* index never passes the end of the input by more than one, and no line
\* starts an utterance more than once
C26_IndexAdvances ==
    /\ [][(pc = "loop" /\ i < Len(lines)) => i' > i]_vars
    /\ [](/\ i <= Len(lines) + 1
          /\ StrictlyIncreasing(opened)
          /\ StrictlyIncreasing(discarded)
          /\ Range(opened) \cap Range(discarded) = {})

\* the parser returned after a pushback: a name-only line directly followed
\* by a character line, each of which started one utterance
C26_Witness ==
    /\ Done
    /\ lines = << <<"M", "i", "c", "h", "e", "a", "l", " ", ":">>, <<"J", "i", "m", ":", " ", "H", "i">>, <<"t", "h", "e", "r", "e">> >>
    /\ discarded = << 0 >> /\ opened = << 1 >>
    /\ i = 3

---------------------------------------------------------------------------
(* Properties of a second pass of _convert_lines, checked under SpecFormat *)

\* C29: _convert_lines is idempotent: converting its own output gives that
\* output again, and no line of the output is followed by a line that starts
\* with ':', which a second pass would take for a split name
C29_ConvertIdempotent ==
    (pc # "convert") =>
        /\ convert_lines(converted) = converted
        /\ \A k \in 0 .. (Len(converted) - 1) : ~NextStartsWithColon(converted, k)

---------------------------------------------------------------------------
(* OfficeTranscriptScraper: get_all_episode_links, _organize_by_season,    *)
(* get_episode_links and resume_scraping                                   *)

\* topic links a forum page may show
MaxTopics == 3

\* the titles of the topic links
TopicPool ==
    { <<"1", "x", "1", " ", "P", "i", "l", "o", "t">>,
      <<"1", "x", "2", " ", "D", "i", "v", "e", "r", "s", "i", "t", "y", " ", "D", "a", "y">>,
      <<"1", "x", "3", " ", "H", "e", "a", "l", "t", "h", " ", "C", "a", "r", "e">>,
      <<"9", "x", "2", "4", "/", "2", "5", " ", "A", ".", "A", ".", "R", ".", "M", ".">>,
      <<"9", "x", "2", "6", " ", "F", "i", "n", "a", "l", "e">>,
      <<"F", "o", "r", "u", "m", " ", "r", "u", "l", "e", "s">> }

\* all_episodes of get_all_episode_links: the dicts _parse_episode_title
\* gives for the titles, in the order of the links; a title that gives None
\* is left out (every link has an href)
AllEpisodes(titles) ==
    LET parsed == [ k \in DOMAIN titles |-> parse_episode_title(Strip(titles[k])) ]
    IN  SelectSeq(parsed, LAMBDA ep : ep # None)

RECURSIVE InsertByEpisode(_, _)
\* ep put into a list sorted by episode_num, after the episodes whose number
\* is not greater
InsertByEpisode(eps, ep) ==
    IF eps = << >> THEN << ep >>
    ELSE IF eps[1].episode_num <= ep.episode_num
    THEN << eps[1] >> \o InsertByEpisode(Tail(eps), ep)
    ELSE << ep >> \o eps

RECURSIVE SortedByEpisode(_)
\* sorted(eps, key=lambda x: x['episode_num']), a stable sort
SortedByEpisode(eps) ==
    IF eps = << >> THEN << >>
    ELSE InsertByEpisode(SortedByEpisode(SubSeq(eps, 1, Len(eps) - 1)), eps[Len(eps)])

\* the dict from each season to the names of its episodes, sorted by
\* episode number
organize_by_season(episodes) ==
    LET seasons     == { episodes[k].season : k \in DOMAIN episodes }
        OfSeason(s) == SelectSeq(episodes, LAMBDA ep : ep.season = s)
        Names(eps)  == [ k \in DOMAIN eps |-> eps[k].name ]
    IN  [ s \in seasons |-> Names(SortedByEpisode(OfSeason(s))) ]

RECURSIVE FlattenSeasons(_)
\* the lists of the dict, one after the other in the order of its keys,
\* which _organize_by_season inserted in ascending order
FlattenSeasons(by_season) ==
    IF DOMAIN by_season = {} THEN << >>
    ELSE LET s == Min(DOMAIN by_season)
         IN  by_season[s]
                 \o FlattenSeasons([ t \in DOMAIN by_season \ { s } |-> by_season[t] ])

\* get_episode_links: the flattened table, a list of episode names (str)
get_episode_links(titles) == FlattenSeasons(organize_by_season(AllEpisodes(titles)))

\* resume_scraping after get_episode_links returned the list episodes. Its
\* elements are str, so episode['filename'] in the first iteration of the
\* for loop raises TypeError; for the empty list the loop does nothing,
\* start_index is 0, and episodes[0] in the test that follows raises
\* IndexError. Neither the return nor the call of scrape_all_episodes is
\* reached, whatever files exist.
resume_scraping(episodes, files) ==
    [ raised      |-> IF episodes # << >> THEN "TypeError" ELSE "IndexError",
      start_index |-> 0,
      scraping    |-> FALSE ]

InitScraper ==
    /\ topics \in { << >> } \cup SeqsUpTo(TopicPool, MaxTopics)
    /\ saved \in SUBSET { ep.filename : ep \in Range(AllEpisodes(topics)) }
    /\ episodes_by_season = << >> /\ total_episodes = 0
    /\ resumed = None /\ transcript = << >>
    /\ ParseIdle /\ ConvertIdle /\ NormalizeIdle /\ TitleIdle
    /\ ProcessIdle /\ UnitsIdle /\ CallsIdle /\ SimpleIdle
    /\ pc = "forum"

ScraperFrame ==
    UNCHANGED << parseVars, convertVars, normalizeVars, titleVars, processVars,
                 unitVars, callVars, simpleVars, topics, saved, transcript >>

\* the table is built and kept on the scraper
StoreEpisodes ==
    \E by_season \in { organize_by_season(AllEpisodes(topics)) } :
        /\ episodes_by_season' = by_season
        /\ total_episodes' = Len(FlattenSeasons(by_season))

GetAllEpisodeLinks ==
    /\ pc = "forum"
    /\ StoreEpisodes
    /\ pc' = "listed"
    /\ UNCHANGED resumed
    /\ ScraperFrame

\* resume_scraping, which calls get_episode_links first
ResumeScraping ==
    /\ pc = "forum"
    /\ StoreEpisodes
    /\ resumed' = resume_scraping(get_episode_links(topics), saved)
    /\ pc' = "resumed"
    /\ ScraperFrame

ResumeRaisesTypeError ==
    /\ get_episode_links(topics) # << >>
    /\ ResumeScraping

ResumeRaisesIndexError ==
    /\ get_episode_links(topics) = << >>
    /\ ResumeScraping

ScraperNext ==
    \/ GetAllEpisodeLinks
    \/ ResumeRaisesTypeError
    \/ ResumeRaisesIndexError

SpecScraper == InitScraper /\ [][ScraperNext]_vars

\* whether no two of the episodes have the same season and number
DistinctEpisodes(eps) ==
    \A a, b \in DOMAIN eps :
        (eps[a].season = eps[b].season /\ eps[a].episode_num = eps[b].episode_num)
            => a = b

\* the title process_all_transcripts gives the file the scraper saves for ep
TitleOfSavedFile(ep, table) ==
    EpisodeTitle(parse_episode_filename(ep.filename), table)

\* C24: in the table built from the scraped episodes, single or double and
\* with gaps in the numbering, the entry at index n - 1 of season s is the
\* name of episode n of that season, so the title process_all_transcripts
\* takes from the table for a file is the title of that very episode
C24_TableIndexedByEpisode ==
    (pc = "listed" /\ DistinctEpisodes(AllEpisodes(topics))) =>
        \A ep \in Range(AllEpisodes(topics)) :
            /\ ep.episode_num >= 1
            /\ ep.episode_num <= Len(episodes_by_season[ep.season])
            /\ episodes_by_season[ep.season][ep.episode_num] = ep.name
            /\ TitleOfSavedFile(ep, episodes_by_season) = ep.name

\* the index of the first episode whose file does not exist, 0 when all exist
FirstMissing(eps, files) ==
    LET missing == { k \in DOMAIN eps : eps[k].filename \notin files }
    IN  IF missing = {} THEN 0 ELSE Min(missing) - 1

\* the value of resumed.raised for a call that ends without an exception
NoException == "none"

\* C25: for a non-empty episode list resume_scraping ends without raising;
\* when every file exists it returns and downloads nothing, and otherwise it
\* calls scrape_all_episodes with the index of the first episode whose file
\* does not exist
C25_ResumesAtFirstMissing ==
    (pc = "resumed" /\ AllEpisodes(topics) # << >>) =>
        LET eps == AllEpisodes(topics)
        IN  /\ resumed.raised = NoException
            /\ resumed.scraping = (\E k \in DOMAIN eps : eps[k].filename \notin saved)
            /\ resumed.scraping => resumed.start_index = FirstMissing(eps, saved)

---------------------------------------------------------------------------
(* OfficeTranscriptScraper._clean_transcript, and parse_transcript on the  *)
(* file scrape_all_episodes saves                                          *)

Newline == "\n"

\* the characters \s matches in the text of a page
Blanks == Whitespace \cup { Newline }

\* the first position from p on that holds no blank, Len(s) + 1 if none
SkipBlanks(s, p) ==
    LET solid == { k \in p .. Len(s) : s[k] \notin Blanks }
    IN  IF solid = {} THEN Len(s) + 1 ELSE Min(solid)

RECURSIVE RemoveTopFrom(_, _)
\* re.sub(r'\s*Top\s*', '', s) from position p on: a 'Top' is removed with
\* the blanks, newlines included, on both sides of it
RemoveTopFrom(s, p) ==
    IF p > Len(s) THEN << >>
    ELSE LET q == SkipBlanks(s, p)
         IN  IF OccursAt(s, <<"T", "o", "p">>, q)
             THEN RemoveTopFrom(s, SkipBlanks(s, q + 3))
             ELSE << s[p] >> \o RemoveTopFrom(s, p + 1)

RECURSIVE SplitLinesFrom(_, _, _, _)
SplitLinesFrom(s, k, line, ls) ==
    IF k > Len(s) THEN Append(ls, line)
    ELSE IF s[k] = Newline THEN SplitLinesFrom(s, k + 1, << >>, Append(ls, line))
    ELSE SplitLinesFrom(s, k + 1, Append(line, s[k]), ls)

\* s.split('\n')
SplitLines(s) == SplitLinesFrom(s, 1, << >>, << >>)

\* s.rstrip(chars)
RStripChars(s, chars) ==
    LET keep == { k \in DOMAIN s : s[k] \notin chars }
    IN  IF keep = {} THEN << >> ELSE SubSeq(s, 1, Max(keep))

\* the class [a-zA-Z\s\'\.] of the name pattern of _clean_transcript
CleanNameChars ==
    Range(UpperLetters) \cup Range(LowerLetters) \cup Blanks \cup { "'", "." }

\* re.match(r'^[A-Z][a-zA-Z\s\'\.]+:\s*$', line), line without trailing
\* blanks: the colon the match ends on is the last character
IsNameOnlyLine(line) ==
    /\ Len(line) >= 3
    /\ IsUpperChar(line[1])
    /\ \A k \in 2 .. (Len(line) - 1) : line[k] \in CleanNameChars
    /\ line[Len(line)] = ":"

RECURSIVE CleanLines(_, _, _)
\* the while loop of _clean_transcript: cleaned_lines when it ends
CleanLines(ls, j, cleaned_lines) ==
    IF ~(j < Len(ls)) THEN cleaned_lines
    ELSE LET line           == RStripChars(ls[j + 1], Blanks)
             character_name == Strip(RStripChars(line, { ":" }))
         IN  IF /\ IsNameOnlyLine(line)
                /\ j + 1 < Len(ls)
                /\ Strip(ls[j + 2]) # << >>
             THEN CleanLines(ls, j + 2,
                             Append(cleaned_lines,
                                    character_name \o << ":", " " >> \o Strip(ls[j + 2])))
             ELSE CleanLines(ls, j + 1, Append(cleaned_lines, line))

RECURSIVE CollapseFrom(_, _)
\* re.sub(r'\n{3,}', '\n\n', s) from position p on
CollapseFrom(s, p) ==
    IF p > Len(s) THEN << >>
    ELSE LET stop == Min({ k \in p .. (Len(s) + 1) : k > Len(s) \/ s[k] # Newline })
         IN  IF stop - p >= 3
             THEN << Newline, Newline >> \o CollapseFrom(s, stop)
             ELSE << s[p] >> \o CollapseFrom(s, p + 1)

clean_transcript(t) ==
    LET ls     == SplitLines(RemoveTopFrom(t, 1))
        joined == Join(CleanLines(ls, 0, << >>), << Newline >>)
    IN  StripChars(CollapseFrom(joined, 1), Blanks)

\* lines the text of a transcript page may hold
PageLinePool ==
    { <<"M", "i", "c", "h", "a", "e", "l", ":">>,
      <<"J", "i", "m", ":", " ", "H", "i">>,
      <<"t", "h", "e", "r", "e">>,
      <<>>,
      <<"T", "o", "p">>,
      <<"[", "L", "o", "b", "b", "y", "]">>,
      <<"-", "-", "-", "-", "-", "-", "-">> }

InitClean ==
    /\ transcript \in { Join(ls, << Newline >>) : ls \in SeqsUpTo(PageLinePool, MaxLines) }
    /\ lines = << >>
    /\ keep_stage_directions \in BOOLEAN
    /\ episode_info \in EpisodeInfos
    /\ AtParseStart
    /\ topics = << >> /\ episodes_by_season = << >> /\ total_episodes = 0
    /\ saved = {} /\ resumed = None
    /\ ConvertIdle /\ NormalizeIdle /\ TitleIdle
    /\ ProcessIdle /\ UnitsIdle /\ CallsIdle /\ SimpleIdle
    /\ pc = "page"

\* scrape_transcript returns the cleaned text, save_transcript writes it and
\* parse_transcript reads the file
SaveTranscript ==
    /\ pc = "page"
    /\ \E cleaned \in { clean_transcript(transcript) } :
           /\ cleaned # << >>
           /\ lines' = SplitLines(cleaned)
    /\ pc' = "loop"
    /\ UNCHANGED << keep_stage_directions, episode_info, i, current_scene,
                    line_number, dialogues, opened, discarded >>
    /\ UNCHANGED << convertVars, normalizeVars, titleVars, batchVars >>

\* "if transcript:" fails for the empty text, and no file is written
NoTranscript ==
    /\ pc = "page"
    /\ clean_transcript(transcript) = << >>
    /\ pc' = "failed"
    /\ UNCHANGED << parseVars, convertVars, normalizeVars, titleVars, batchVars >>

CleanNext == SaveTranscript \/ NoTranscript \/ ParseNext

SpecClean == InitClean /\ [][CleanNext]_vars

\* the lines of the page
PageLines == SplitLines(transcript)

\* whether line k of the page is a name-only line directly followed by a
\* character line with text
FollowedByCharacterLine(k) ==
    /\ k + 1 <= Len(PageLines)
    /\ IsNameOnlyLine(RStripChars(PageLines[k], Blanks))
    /\ MatchCharacterLine(Strip(PageLines[k + 1])).matched
    /\ MatchCharacterLine(Strip(PageLines[k + 1])).g2 # << >>

\* C27: _clean_transcript folds the line after a name-only line into that
\* speaker's line only when it is dialogue content: a following character
\* line 'Other: text' is never merged into 'Name: Other: text', and no
\* dialogue gives the whole of it as text to the speaker of the line before
C27_CharacterLineNotMerged ==
    (pc \in { "loop", "done" }) =>
        \A k \in DOMAIN PageLines :
            FollowedByCharacterLine(k) =>
                /\ Strip(RStripChars(PageLines[k], Blanks \cup { ":" }))
                       \o << ":", " " >> \o Strip(PageLines[k + 1]) \notin Range(lines)
                /\ \A n \in DOMAIN dialogues :
                       dialogues[n].text # Strip(PageLines[k + 1])

---------------------------------------------------------------------------
(* process_all_transcripts called again on the same processor, and         *)
(* get_statistics                                                          *)

\* calls of process_all_transcripts on one processor
MaxCalls == 2

\* the next call begins: its locals are new, the fields of the processor
\* are as the calls before left them
ProcessAgain ==
    /\ pc = "done" /\ calls + 1 < MaxCalls
    /\ calls' = calls + 1
    /\ fi' = ProcessStart.fi
    /\ episode_info' = ProcessStart.episode_info
    /\ all_dialogues' = ProcessStart.all_dialogues
    /\ pc' = "start"
    /\ UNCHANGED << dialogues_by_season, total_files, total_dialogues,
                    lines, keep_stage_directions, i, current_scene, line_number,
                    dialogues, opened, discarded, txt_files, episode_titles,
                    convertVars, normalizeVars, titleVars, unitVars,
                    scraperVars, simpleVars >>

RepeatNext == ProcessNext \/ ProcessAgain

SpecRepeat == InitProcess /\ [][RepeatNext]_vars

\* the characters of the dialogues kept by season
CharactersOf(by_season) ==
    UNION { { by_season[s][k].character : k \in DOMAIN by_season[s] } :
            s \in DOMAIN by_season }

RECURSIVE CountCharacter(_, _)
\* character_counts[c] after the loops over self.dialogues_by_season.values()
CountCharacter(by_season, c) ==
    IF DOMAIN by_season = {} THEN 0
    ELSE LET s == Min(DOMAIN by_season)
         IN  Cardinality({ k \in DOMAIN by_season[s] : by_season[s][k].character = c })
                 + CountCharacter([ t \in DOMAIN by_season \ { s } |-> by_season[t] ], c)

\* the dict get_statistics returns for the fields of the processor
get_statistics(files, total, by_season) ==
    [ total_files         |-> files,
      total_dialogues     |-> total,
      dialogues_by_season |-> [ s \in DOMAIN by_season |-> Len(by_season[s]) ],
      character_stats     |-> [ c \in CharactersOf(by_season) |->
                                  CountCharacter(by_season, c) ] ]

RECURSIVE SumOfValues(_)
\* the sum of the values of a dict of numbers
SumOfValues(counts) ==
    IF DOMAIN counts = {} THEN 0
    ELSE LET x == CHOOSE y \in DOMAIN counts : TRUE
         IN  counts[x] + SumOfValues([ y \in DOMAIN counts \ { x } |-> counts[y] ])

\* C28: whenever a call of process_all_transcripts has returned, after any
\* number of calls on the processor, total_dialogues equals the sum of the
\* per-season counts and the sum of the per-character counts of
\* get_statistics
C28_StatisticsConsistent ==
    (pc = "done") =>
        LET stats == get_statistics(total_files, total_dialogues, dialogues_by_season)
        IN  /\ stats.total_dialogues = SumOfValues(stats.dialogues_by_season)
            /\ stats.total_dialogues = SumOfValues(stats.character_stats)

---------------------------------------------------------------------------
(* AlternativeTranscriptScraper.parse_simple_transcript and                *)
(* _normalize_character_name                                               *)

\* mappings of _normalize_character_name, as (key, value) pairs
simple_mappings ==
    <<
       << <<"D", "w", "i", "g", "h", "t", " ", "K", ".", " ", "S", "c", "h", "r", "u", "t", "e">>, <<"D", "w", "i", "g", "h", "t">> >>,
       << <<"D", "w", "i", "g", "h", "t", " ", "K", " ", "S", "c", "h", "r", "u", "t", "e">>, <<"D", "w", "i", "g", "h", "t">> >>,
       << <<"D", "w", "i", "g", "h", "t", " ", "S", "c", "h", "r", "u", "t", "e">>, <<"D", "w", "i", "g", "h", "t">> >>,
       << <<"D", "w", "i", "g", "h", "t">>, <<"D", "w", "i", "g", "h", "t">> >>,
       << <<"J", "i", "m", " ", "H", "a", "l", "p", "e", "r", "t">>, <<"J", "i", "m">> >>,
       << <<"J", "i", "m">>, <<"J", "i", "m">> >>,
       << <<"P", "a", "m", " ", "B", "e", "e", "s", "l", "y">>, <<"P", "a", "m">> >>,
       << <<"P", "a", "m", " ", "H", "a", "l", "p", "e", "r", "t">>, <<"P", "a", "m">> >>,
       << <<"P", "a", "m">>, <<"P", "a", "m">> >>,
       << <<"P", "a", "m", "e", "l", "a">>, <<"P", "a", "m">> >>,
       << <<"M", "i", "c", "h", "a", "e", "l", " ", "S", "c", "o", "t", "t">>, <<"M", "i", "c", "h", "a", "e", "l">> >>,
       << <<"M", "i", "c", "h", "a", "e", "l">>, <<"M", "i", "c", "h", "a", "e", "l">> >>,
       << <<"M", "i", "k", "e">>, <<"M", "i", "c", "h", "a", "e", "l">> >>,
       << <<"A", "n", "g", "e", "l", "a", " ", "M", "a", "r", "t", "i", "n">>, <<"A", "n", "g", "e", "l", "a">> >>,
       << <<"A", "n", "g", "e", "l", "a">>, <<"A", "n", "g", "e", "l", "a">> >>,
       << <<"K", "e", "v", "i", "n", " ", "M", "a", "l", "o", "n", "e">>, <<"K", "e", "v", "i", "n">> >>,
       << <<"K", "e", "v", "i", "n">>, <<"K", "e", "v", "i", "n">> >>,
       << <<"O", "s", "c", "a", "r", " ", "M", "a", "r", "t", "i", "n", "e", "z">>, <<"O", "s", "c", "a", "r">> >>,
       << <<"O", "s", "c", "a", "r">>, <<"O", "s", "c", "a", "r">> >>,
       << <<"S", "t", "a", "n", "l", "e", "y", " ", "H", "u", "d", "s", "o", "n">>, <<"S", "t", "a", "n", "l", "e", "y">> >>,
       << <<"S", "t", "a", "n", "l", "e", "y">>, <<"S", "t", "a", "n", "l", "e", "y">> >>,
       << <<"P", "h", "y", "l", "l", "i", "s", " ", "V", "a", "n", "c", "e">>, <<"P", "h", "y", "l", "l", "i", "s">> >>,
       << <<"P", "h", "y", "l", "l", "i", "s", " ", "L", "a", "p", "i", "n">>, <<"P", "h", "y", "l", "l", "i", "s">> >>,
       << <<"P", "h", "y", "l", "l", "i", "s">>, <<"P", "h", "y", "l", "l", "i", "s">> >>,
       << <<"R", "y", "a", "n", " ", "H", "o", "w", "a", "r", "d">>, <<"R", "y", "a", "n">> >>,
       << <<"R", "y", "a", "n">>, <<"R", "y", "a", "n">> >>,
       << <<"K", "e", "l", "l", "y", " ", "K", "a", "p", "o", "o", "r">>, <<"K", "e", "l", "l", "y">> >>,
       << <<"K", "e", "l", "l", "y">>, <<"K", "e", "l", "l", "y">> >>,
       << <<"T", "o", "b", "y", " ", "F", "l", "e", "n", "d", "e", "r", "s", "o", "n">>, <<"T", "o", "b", "y">> >>,
       << <<"T", "o", "b", "y">>, <<"T", "o", "b", "y">> >>,
       << <<"C", "r", "e", "e", "d", " ", "B", "r", "a", "t", "t", "o", "n">>, <<"C", "r", "e", "e", "d">> >>,
       << <<"C", "r", "e", "e", "d">>, <<"C", "r", "e", "e", "d">> >>,
       << <<"M", "e", "r", "e", "d", "i", "t", "h", " ", "P", "a", "l", "m", "e", "r">>, <<"M", "e", "r", "e", "d", "i", "t", "h">> >>,
       << <<"M", "e", "r", "e", "d", "i", "t", "h">>, <<"M", "e", "r", "e", "d", "i", "t", "h">> >>,
       << <<"E", "r", "i", "n", " ", "H", "a", "n", "n", "o", "n">>, <<"E", "r", "i", "n">> >>,
       << <<"E", "r", "i", "n">>, <<"E", "r", "i", "n">> >>,
       << <<"A", "n", "d", "y", " ", "B", "e", "r", "n", "a", "r", "d">>, <<"A", "n", "d", "y">> >>,
       << <<"A", "n", "d", "y">>, <<"A", "n", "d", "y">> >>,
       << <<"D", "a", "r", "r", "y", "l", " ", "P", "h", "i", "l", "b", "i", "n">>, <<"D", "a", "r", "r", "y", "l">> >>,
       << <<"D", "a", "r", "r", "y", "l">>, <<"D", "a", "r", "r", "y", "l">> >>,
       << <<"J", "a", "n", " ", "L", "e", "v", "i", "n", "s", "o", "n">>, <<"J", "a", "n">> >>,
       << <<"J", "a", "n">>, <<"J", "a", "n">> >>,
       << <<"D", "a", "v", "i", "d", " ", "W", "a", "l", "l", "a", "c", "e">>, <<"D", "a", "v", "i", "d">> >>,
       << <<"R", "o", "y", " ", "A", "n", "d", "e", "r", "s", "o", "n">>, <<"R", "o", "y">> >>,
       << <<"R", "o", "y">>, <<"R", "o", "y">> >> >>

\* _normalize_character_name(nm): re.sub(r'\s*\(.*\)', '', nm) removes
\* nothing from a name the dialogue pattern matched, which holds no '('
simple_normalize_character_name(nm) ==
    LET titled == Title(Strip(nm))
    IN  IF \E k \in DOMAIN simple_mappings : simple_mappings[k][1] = titled
        THEN simple_mappings[
                 CHOOSE k \in DOMAIN simple_mappings : simple_mappings[k][1] = titled][2]
        ELSE titled

\* ['[scene:', 'scene', 'int.', 'ext']
SceneWords ==
    { <<"[", "s", "c", "e", "n", "e", ":">>,
      <<"s", "c", "e", "n", "e">>,
      <<"i", "n", "t", ".">>,
      <<"e", "x", "t">> }

\* sub in s
Contains(s, sub) == \E p \in DOMAIN s : OccursAt(s, sub, p)

\* any(marker in line.lower() for marker in [...])
HasSceneWord(line) == \E marker \in SceneWords : Contains(Lower(line), marker)

\* line.startswith(open) and line.endswith(close)
IsWrapped(line, open, close) ==
    line # << >> /\ line[1] = open /\ line[Len(line)] = close

\* re.match(r'^([A-Z][A-Za-z\s\'\-\.]+?):\s*(.+)$', line): group 1 ends
\* before the first colon, and group 2 is what follows the colon and the
\* blanks after it, which must leave it one character at least
MatchSimpleDialogue(line) ==
    LET c    == FirstColon(line)
        rest == SubSeq(line, c + 1, Len(line))
    IN  IF /\ c >= 3
           /\ IsUpperChar(line[1])
           /\ \A k \in 2 .. (c - 1) : line[k] \in NameChars
           /\ rest # << >>
        THEN [ matched |-> TRUE,
               g1 |-> SubSeq(line, 1, c - 1),
               g2 |-> IF LStrip(rest) # << >> THEN LStrip(rest)
                      ELSE << rest[Len(rest)] >> ]
        ELSE [ matched |-> FALSE, g1 |-> << >>, g2 |-> << >> ]

\* the text of the Dialogue for a line the pattern matched as m
SimpleText(m) == Strip(RemoveStageDirections(Strip(m.g2)))

SimpleDialogue(character, txt, info, scene) ==
    [ character      |-> character,
      text           |-> txt,
      episode_title  |-> info.episode_title,
      season         |-> info.season,
      episode_number |-> info.episode_number,
      scene_context  |-> scene,
      timestamp      |-> << >> ]

\* the locals before the for loop; k counts the lines the loop has taken
SimpleStart ==
    [ k             |-> 0,
      current_scene |-> <<"S", "c", "e", "n", "e", " ", "1">>,
      scene_counter |-> 1,
      dialogues     |-> << >> ]

\* one iteration of "for line in lines:", on the loop's local state s
SimpleIteration(ls, info, s) ==
    LET line == Strip(ls[s.k + 1])
        m    == MatchSimpleDialogue(line)
    IN  IF line = << >> THEN [ s EXCEPT !.k = s.k + 1 ]
        ELSE IF HasSceneWord(line)
        THEN [ s EXCEPT !.k = s.k + 1,
                        !.current_scene = StripChars(line, { "[", "]" }),
                        !.scene_counter = s.scene_counter + 1 ]
        ELSE IF IsWrapped(line, "[", "]") \/ IsWrapped(line, "(", ")")
        THEN [ s EXCEPT !.k = s.k + 1 ]
        ELSE IF m.matched /\ SimpleText(m) # << >>
        THEN [ s EXCEPT !.k = s.k + 1,
                        !.dialogues =
                            Append(s.dialogues,
                                   SimpleDialogue(simple_normalize_character_name(Strip(m.g1)),
                                                  SimpleText(m), info, s.current_scene)) ]
        ELSE [ s EXCEPT !.k = s.k + 1 ]

RECURSIVE SimpleLoop(_, _, _)
SimpleLoop(ls, info, s) ==
    IF s.k < Len(ls) THEN SimpleLoop(ls, info, SimpleIteration(ls, info, s)) ELSE s

\* parse_simple_transcript on a text that splits into the lines ls
parse_simple_transcript(ls, info) == SimpleLoop(ls, info, SimpleStart).dialogues

\* lines the text may hold
SimpleLinePool ==
    { <<>>,
      <<"J", "i", "m", ":", " ", "H", "i", " ", "(", "l", "a", "u", "g", "h", "s", ")">>,
      <<"J", "i", "m", ":", " ", "W", "h", "a", "t", "'", "s", " ", "n", "e", "x", "t", "?">>,
      <<"M", "i", "c", "h", "a", "e", "l", " ", "S", "c", "o", "t", "t", ":", " ", "N", "o">>,
      <<"P", "a", "m", ":", " ", "(", "s", "i", "g", "h", "s", ")">>,
      <<"[", "S", "c", "e", "n", "e", ":", " ", "O", "f", "f", "i", "c", "e", "]">>,
      <<"[", "H", "e", " ", "l", "e", "a", "v", "e", "s", "]">>,
      <<"(", "H", "e", " ", "l", "e", "a", "v", "e", "s", ")">>,
      <<"h", "e", "l", "l", "o">> }

\* the call and its locals
SimpleCall(ls, info, s) ==
    [ lines         |-> ls,
      info          |-> info,
      k             |-> s.k,
      current_scene |-> s.current_scene,
      scene_counter |-> s.scene_counter,
      dialogues     |-> s.dialogues ]

InitSimple ==
    /\ simple \in { SimpleCall(ls, info, SimpleStart) :
                      ls \in SeqsUpTo(SimpleLinePool, MaxLines), info \in EpisodeInfos }
    /\ ParseIdle /\ ConvertIdle /\ NormalizeIdle /\ TitleIdle
    /\ ProcessIdle /\ UnitsIdle /\ CallsIdle /\ ScraperIdle
    /\ pc = "simple"

SimpleLocals ==
    [ k             |-> simple.k,
      current_scene |-> simple.current_scene,
      scene_counter |-> simple.scene_counter,
      dialogues     |-> simple.dialogues ]

SimpleFrame ==
    UNCHANGED << parseVars, convertVars, normalizeVars, titleVars, processVars,
                 unitVars, callVars, scraperVars >>

SimpleStep ==
    /\ simple' = SimpleCall(simple.lines, simple.info,
                            SimpleIteration(simple.lines, simple.info, SimpleLocals))
    /\ UNCHANGED pc
    /\ SimpleFrame

\* the line under the for loop
SimpleLine == Strip(simple.lines[simple.k + 1])

SimpleSkipBlank ==
    /\ pc = "simple" /\ simple.k < Len(simple.lines)
    /\ SimpleLine = << >>
    /\ SimpleStep

SimpleSceneMarker ==
    /\ pc = "simple" /\ simple.k < Len(simple.lines)
    /\ SimpleLine # << >>
    /\ HasSceneWord(SimpleLine)
    /\ SimpleStep

SimpleStageDirection ==
    /\ pc = "simple" /\ simple.k < Len(simple.lines)
    /\ SimpleLine # << >>
    /\ ~HasSceneWord(SimpleLine)
    /\ IsWrapped(SimpleLine, "[", "]") \/ IsWrapped(SimpleLine, "(", ")")
    /\ SimpleStep

SimpleDialogueLine ==
    /\ pc = "simple" /\ simple.k < Len(simple.lines)
    /\ SimpleLine # << >>
    /\ ~HasSceneWord(SimpleLine)
    /\ ~(IsWrapped(SimpleLine, "[", "]") \/ IsWrapped(SimpleLine, "(", ")"))
    /\ MatchSimpleDialogue(SimpleLine).matched
    /\ SimpleStep

SimpleOtherLine ==
    /\ pc = "simple" /\ simple.k < Len(simple.lines)
    /\ SimpleLine # << >>
    /\ ~HasSceneWord(SimpleLine)
    /\ ~(IsWrapped(SimpleLine, "[", "]") \/ IsWrapped(SimpleLine, "(", ")"))
    /\ ~MatchSimpleDialogue(SimpleLine).matched
    /\ SimpleStep

SimpleReturn ==
    /\ pc = "simple" /\ ~(simple.k < Len(simple.lines))
    /\ pc' = "returned"
    /\ UNCHANGED simple
    /\ SimpleFrame

SimpleNext ==
    \/ SimpleSkipBlank
    \/ SimpleSceneMarker
    \/ SimpleStageDirection
    \/ SimpleDialogueLine
    \/ SimpleOtherLine
    \/ SimpleReturn

SpecSimple == InitSimple /\ [][SimpleNext]_vars

\* whether a trimmed line is 'Name: text' with a text that is not empty once
\* its parenthesized directions are removed
IsSpokenLine(line) ==
    /\ MatchSimpleDialogue(line).matched
    /\ SimpleText(MatchSimpleDialogue(line)) # << >>

\* the lines 'Name: text' of the call, trimmed, in their order
SpokenLines ==
    SelectSeq([ k \in DOMAIN simple.lines |-> Strip(simple.lines[k]) ], IsSpokenLine)

\* C30: every line 'Name: text' whose text is not empty once its
\* parenthesized directions are removed gives exactly one Dialogue, for its
\* speaker and with that text, whatever words the text holds
C30_EverySpokenLineGivesADialogue ==
    (pc = "returned") =>
        /\ Len(simple.dialogues) = Len(SpokenLines)
        /\ \A n \in DOMAIN SpokenLines :
               LET m == MatchSimpleDialogue(SpokenLines[n])
               IN  /\ simple.dialogues[n].character =
                          simple_normalize_character_name(Strip(m.g1))
                   /\ simple.dialogues[n].text = SimpleText(m)

===========================================================================
